---------------------------- MODULE Spec2Model ----------------------------
(***************************************************************************)
(* State-machine model of the real-time recognition pipeline of signtalk:  *)
(*   - ModeManager            (backend/app/mode_manager.py)                *)
(*   - PerformanceOptimizer   (backend/app/performance_optimizer.py)       *)
(*   - TemporalBuffer         (app/models/i3d, not part of the sources:    *)
(*                             modelled from the specification)            *)
(*   - I3DTranslatorService   (backend/app/services/i3d_translator.py)     *)
(*   - EnsembleTranslator     (backend/app/services/ensemble_translator.py)*)
(*                                                                         *)
(* Time is a discrete wall clock `now` counted in ticks; levels and        *)
(* probabilities are fixed-point integers (see the unit definitions).      *)
(***************************************************************************)
EXTENDS Integers, Sequences, FiniteSets, TLC

VARIABLES
    now,                  \* wall clock (datetime.now() / time.time()), in ticks
    \* ---- ModeManager
    current_mode,         \* self.current_mode
    last_mode_switch,     \* self.last_mode_switch
    audio_levels,         \* self.audio_levels  (rolling buffer)
    motion_levels,        \* self.motion_levels (rolling buffer)
    mode_calls,           \* number of detect_active_mode calls made (bounded)
    mode_obs,             \* observation of the last ModeManager operation,
                          \* with the samples taken since the buffers were
                          \* last cleared
    mode_prev,            \* the detect_active_mode return before the last one
    \* ---- PerformanceOptimizer
    last_frame_time,      \* self.last_frame_time
    optimization_settings,\* self.optimization_settings
    gov_calls,            \* number of should_skip_frame calls made (bounded)
    gov_obs,              \* observation of the last should_skip_frame call
    gov_prev_call,        \* the should_skip_frame call before the last one
    \* ---- I3DTranslatorService
    temporal_buffer,      \* self.temporal_buffer (a TemporalBuffer)
    put_tasks,            \* pending _add_to_queue tasks, in creation order
    processing_queue,     \* self.processing_queue
    service_offered,      \* frames passed to I3DTranslatorService.process_frame
    emit_log,             \* frame counts at which _on_sequence_ready was called
    frame_obs,            \* observation of the last process_frame call
    \* ---- EnsembleTranslator (buffers)
    i3d_buffer,           \* self.i3d_buffer  (a TemporalBuffer)
    pose_buffer,          \* self.pose_buffer (a TemporalBuffer)
    ens_offered,          \* frames passed to EnsembleTranslator.process_frame
    pose_rejects,         \* frames whose pose confidence was not above 0.5
    seq_obs,              \* observation of the last get_latest_sequence call
    \* ---- EnsembleTranslator (fusion) and TranslationEngine
    ensemble_weights,     \* self.ensemble_weights
    stats,                \* self.stats
    results_cache,        \* self.results_cache
    ensemble_enabled,     \* TranslationEngine.ensemble_enabled
    fuse_calls,           \* get_ensemble_translation calls made (bounded)
    weight_updates,       \* update_ensemble_weights calls made (bounded)
    fuse_obs,             \* observation of the last get_ensemble_translation call
    adapt_obs,            \* observation of the last get_adaptive_weights / get_stats call
    \* ---- _ensemble_predictions and get_stats, statement by statement
    conc_pc,              \* the statement the fusion in progress is at
    cache_lock,           \* holder of self.cache_lock
    conc_local,           \* locals of the fusion in progress
    conc_done,            \* two-channel fusions that have returned
    conc_obs,             \* observation of the last statement executed
    \* ---- ConnectionManager
    active_sessions,      \* manager.active_sessions (the session ids)
    \* ---- PerformanceOptimizer (latency windows)
    metrics,              \* self.metrics: a window of samples (ms) per metric
    qual_samples,         \* latency samples recorded (bounded)
    qual_obs,             \* observation of the last quality operation
    \* ---- I3DTranslatorService (queue hand-over)
    task_full,            \* per pending task: was the queue full when created
    dropped_seqs,         \* sequences whose put timed out
    queue_obs,            \* observation of the last queue operation
    \* ---- websocket_endpoint (one client session)
    ws_state,             \* "open" while the receive loop runs, then "closed"
    connected,            \* whether the client is still connected
    retry_count,          \* retry_count
    active_connections,   \* len(manager.active_connections)
    ws_waited,            \* seconds the pending receive has waited
    ws_events,            \* loop iterations made (bounded)
    ws_obs,               \* observation of the last loop iteration
    \* ---- scorer calls, accessors and I3D settings
    scorer_obs,           \* observation of the last get_ensemble_prediction
    weights_gen,          \* which dict object self.ensemble_weights names
    snap_obs,             \* the snapshot an accessor returned last
    i3d_obs,              \* observation of the last I3D settings operation
    \* ---- process_unified_message
    msg_obs,              \* observation of the last unified input event
    msg_events,           \* unified input events handled (bounded)
    \* ---- I3DTranslatorService (translations) and the scorer calls made
    last_translation,     \* self.last_translation
    last_translation_time,\* self.last_translation_time
    translation_cache,    \* self.translation_cache
    svc_stats,            \* self.stats: translations_completed, cache_hits
    xlat_calls,           \* get_latest_translation calls made (bounded)
    xlat_obs,             \* observation of the last get_latest_translation
    score_log,            \* the sequences handed to a scorer, in call order
    \* ---- PerformanceOptimizer (gesture cache)
    gesture_cache,        \* self._cache, in insertion order
    gesture_memo,         \* the lru_cache of get_cached_gesture, oldest first
    gesture_ops,          \* gesture cache calls made (bounded)
    gesture_obs,          \* observation of the last gesture cache call
    \* ---- PerformanceCache
    pcache,               \* self.cache (an OrderedDict), first entry first
    pc_hits,              \* self.hits
    pc_misses,            \* self.misses
    pc_recent,            \* the keys present, least recently used first
    pc_ops,               \* PerformanceCache calls made (bounded)
    pc_obs                \* observation of the last PerformanceCache call

modeVars == <<current_mode, last_mode_switch, audio_levels, motion_levels,
              mode_calls, mode_obs, mode_prev>>
govVars  == <<last_frame_time, optimization_settings, gov_calls, gov_obs,
              gov_prev_call>>
i3dVars  == <<temporal_buffer, put_tasks, processing_queue, service_offered,
              emit_log, frame_obs>>
bufVars  == <<i3d_buffer, pose_buffer, ens_offered, pose_rejects, seq_obs>>
fuseVars == <<ensemble_weights, stats, results_cache, ensemble_enabled,
              fuse_calls, weight_updates, fuse_obs>>
concVars == <<conc_pc, cache_lock, conc_local, conc_done, conc_obs>>
qualVars == <<metrics, qual_samples, qual_obs>>
queueVars == <<task_full, dropped_seqs, queue_obs>>
wsVars   == <<ws_state, connected, retry_count, active_connections,
              ws_waited, ws_events, ws_obs>>
msgVars  == <<msg_obs, msg_events>>
xlatVars == <<last_translation, last_translation_time, translation_cache,
              svc_stats, xlat_calls, xlat_obs>>
gestureVars == <<gesture_cache, gesture_memo, gesture_ops, gesture_obs>>
pcVars   == <<pcache, pc_hits, pc_misses, pc_recent, pc_ops, pc_obs>>
cacheVars == <<gestureVars, pcVars>>
lateVars == <<msgVars, xlatVars, score_log, cacheVars>>
accVars  == <<scorer_obs, weights_gen, snap_obs, i3d_obs>>
extOther == <<adapt_obs, concVars, active_sessions, qualVars, wsVars, accVars,
              lateVars>>
extVars  == <<extOther, queueVars>>
vars     == <<now, modeVars, govVars, i3dVars, bufVars, fuseVars, extVars>>

\* Python's None, as a record so that it compares with result dicts
None == [none |-> TRUE]

-----------------------------------------------------------------------------
(* Generic helpers *)

RECURSIVE SumSeq(_)
SumSeq(s) == IF s = <<>> THEN 0 ELSE Head(s) + SumSeq(Tail(s))

Max(a, b) == IF a >= b THEN a ELSE b
Min(a, b) == IF a <= b THEN a ELSE b

-----------------------------------------------------------------------------
(* Units.  target_fps is the default of optimization_settings; one second  *)
(* is divided so that 1/target_fps seconds is a whole number of ticks.     *)

target_fps      == 15
TicksPerSecond  == 4 * target_fps
FrameTicks      == TicksPerSecond \div target_fps   \* 1/target_fps seconds

\* The clock moves forward by d ticks, up to the horizon of the run.
Advance(d, horizon) ==
    /\ d > 0
    /\ now + d <= horizon
    /\ now' = now + d

-----------------------------------------------------------------------------
(* ModeManager *)

AUTO_DETECT    == "auto_detect"
SPEECH_TO_SIGN == "speech_to_sign"
SIGN_TO_SPEECH == "sign_to_speech"
TranslationMode == {SPEECH_TO_SIGN, SIGN_TO_SPEECH, AUTO_DETECT}

\* Levels are in hundredths: 0.1 -> 10, 0.2 -> 20.
audio_level_threshold  == 10
motion_level_threshold == 20
mode_switch_cooldown   == 1      \* seconds
buffer_size            == 10
CooldownTicks == mode_switch_cooldown * TicksPerSecond

\* Inputs offered to detect_active_mode (hundredths).
AudioInputs  == {0, 7, 30}
MotionInputs == {0, 50}
MaxDetect    == 2                \* detect_active_mode calls per run
ModeSeconds  == 2                \* horizon of a ModeManager run, seconds
ModeSteps    == {TicksPerSecond \div 2}

\* list.append followed by pop(0) when longer than buffer_size
Roll_DropNewest(buf, x) ==
    IF Len(buf) >= buffer_size THEN buf ELSE Append(buf, x)
Roll(buf, x) ==
    LET appended == Append(buf, x)
    IN  IF Len(appended) > buffer_size THEN Tail(appended) ELSE appended

\* avg > threshold  and  avg < threshold * 0.5, on sum/len without division
AvgAbove(buf, thr) == buf # <<>> /\ SumSeq(buf) > thr * Len(buf)
AvgBelowHalf_Full(buf, thr) ==
    IF buf = <<>> THEN 0 < thr ELSE SumSeq(buf) < thr * Len(buf)
AvgBelowHalf(buf, thr) ==
    IF buf = <<>> THEN 0 < thr ELSE 2 * SumSeq(buf) < thr * Len(buf)

\* time_since_switch < self.mode_switch_cooldown
InCooldown_NoCheck(since) == FALSE
InCooldown(since) == since < CooldownTicks

\* lines 49-67: the mode the signals select from `mode`
DetectedMode_BackToAuto(mode, audio, motion, has_hands) ==
    IF AvgAbove(audio, audio_level_threshold) THEN SPEECH_TO_SIGN
    ELSE IF has_hands /\ AvgAbove(motion, motion_level_threshold)
    THEN SIGN_TO_SPEECH
    ELSE AUTO_DETECT
DetectedMode_SignFirst(mode, audio, motion, has_hands) ==
    IF has_hands /\ AvgAbove(motion, motion_level_threshold)
    THEN SIGN_TO_SPEECH
    ELSE IF AvgAbove(audio, audio_level_threshold) THEN SPEECH_TO_SIGN
    ELSE mode
DetectedMode(mode, audio, motion, has_hands) ==
    IF mode = AUTO_DETECT
    THEN IF AvgAbove(audio, audio_level_threshold) THEN SPEECH_TO_SIGN
         ELSE IF has_hands /\ AvgAbove(motion, motion_level_threshold)
              THEN SIGN_TO_SPEECH
              ELSE mode
    ELSE IF mode = SPEECH_TO_SIGN
    THEN IF /\ AvgBelowHalf(audio, audio_level_threshold)
            /\ has_hands
            /\ AvgAbove(motion, motion_level_threshold)
         THEN SIGN_TO_SPEECH
         ELSE mode
    ELSE IF AvgAbove(audio, audio_level_threshold) THEN SPEECH_TO_SIGN
         ELSE mode

ModeInit ==
    /\ current_mode = AUTO_DETECT
    /\ last_mode_switch = 0
    /\ audio_levels = <<>>
    /\ motion_levels = <<>>
    /\ mode_calls = 0
    /\ mode_obs = [op |-> "init", since |-> 0, before |-> AUTO_DETECT,
                   ret |-> AUTO_DETECT, at |-> 0, has_hands |-> FALSE,
                   set_at |-> -1, set_to |-> AUTO_DETECT, samples |-> <<>>]
    /\ mode_prev = [valid |-> FALSE, ret |-> AUTO_DETECT, at |-> 0]

DetectActiveModePart(audio_level, motion_level, has_hands, horizon) ==
    LET audio    == Roll(audio_levels, audio_level)
        motion   == Roll(motion_levels, motion_level)
        since    == now - last_mode_switch
        detected == IF InCooldown(since) THEN current_mode
                    ELSE DetectedMode(current_mode, audio, motion, has_hands)
    IN  /\ mode_calls < horizon
        /\ mode_calls' = mode_calls + 1
        /\ audio_levels' = audio
        /\ motion_levels' = motion
        /\ current_mode' = detected
        /\ last_mode_switch' =
               IF detected # current_mode THEN now ELSE last_mode_switch
        /\ mode_prev' = IF mode_obs.op = "detect"
                        THEN [valid |-> TRUE, ret |-> mode_obs.ret,
                              at |-> mode_obs.at]
                        ELSE [valid |-> FALSE, ret |-> AUTO_DETECT, at |-> 0]
        /\ mode_obs' = [op |-> "detect", since |-> since,
                        before |-> current_mode, ret |-> detected, at |-> now,
                        has_hands |-> has_hands,
                        set_at |-> mode_obs.set_at,
                        set_to |-> mode_obs.set_to,
                        samples |-> Append(mode_obs.samples,
                                           <<audio_level, motion_level>>)]

detect_active_mode(audio_level, motion_level, has_hands) ==
    /\ DetectActiveModePart(audio_level, motion_level, has_hands, MaxDetect)
    /\ UNCHANGED <<now, extVars, govVars, i3dVars, bufVars, fuseVars>>

set_mode_KeepTimer(mode) ==
    /\ current_mode' = mode
    /\ last_mode_switch' = last_mode_switch
    /\ audio_levels' = <<>>
    /\ motion_levels' = <<>>
    /\ mode_prev' = [valid |-> FALSE, ret |-> AUTO_DETECT, at |-> 0]
    /\ mode_obs' = [op |-> "set_mode", since |-> now - last_mode_switch,
                    before |-> current_mode, ret |-> mode, at |-> now,
                    has_hands |-> FALSE, set_at |-> now, set_to |-> mode,
                    samples |-> <<>>]
    /\ UNCHANGED <<now, extVars, mode_calls, govVars, i3dVars, bufVars, fuseVars>>
set_mode(mode) ==
    /\ current_mode' = mode
    /\ last_mode_switch' = now
    /\ audio_levels' = <<>>
    /\ motion_levels' = <<>>
    /\ mode_prev' = [valid |-> FALSE, ret |-> AUTO_DETECT, at |-> 0]
    /\ mode_obs' = [op |-> "set_mode", since |-> now - last_mode_switch,
                    before |-> current_mode, ret |-> mode, at |-> now,
                    has_hands |-> FALSE, set_at |-> now, set_to |-> mode,
                    samples |-> <<>>]
    /\ UNCHANGED <<now, extVars, mode_calls, govVars, i3dVars, bufVars, fuseVars>>

reset ==
    /\ current_mode' = AUTO_DETECT
    /\ last_mode_switch' = now
    /\ audio_levels' = <<>>
    /\ motion_levels' = <<>>
    /\ mode_prev' = [valid |-> FALSE, ret |-> AUTO_DETECT, at |-> 0]
    /\ mode_obs' = [op |-> "reset", since |-> now - last_mode_switch,
                    before |-> current_mode, ret |-> AUTO_DETECT, at |-> now,
                    has_hands |-> FALSE, set_at |-> -1,
                    set_to |-> AUTO_DETECT, samples |-> <<>>]
    /\ UNCHANGED <<now, extVars, mode_calls, govVars, i3dVars, bufVars, fuseVars>>

ModeTick ==
    /\ \E d \in ModeSteps : Advance(d, ModeSeconds * TicksPerSecond)
    /\ UNCHANGED <<extVars, modeVars, govVars, i3dVars, bufVars, fuseVars>>

-----------------------------------------------------------------------------
(* PerformanceOptimizer *)

GovTicks == 10                   \* horizon of a governor run, ticks
MaxSkipCalls == 4                \* should_skip_frame calls per run
GovSteps == {1, FrameTicks - 1, FrameTicks, FrameTicks + 1}

GovInit ==
    /\ last_frame_time = 0
    /\ optimization_settings =
         [enable_frame_skipping    |-> TRUE,
          enable_audio_compression |-> TRUE,
          enable_caching           |-> TRUE,
          max_resolution           |-> <<640, 480>>,
          target_fps               |-> target_fps,
          audio_sample_rate        |-> 16000,
          i3d_buffer_size          |-> 128,
          i3d_sequence_length      |-> 64,
          i3d_stride               |-> 16,
          enable_i3d               |-> TRUE]
    /\ gov_calls = 0
    /\ gov_obs = [op |-> "init", ret |-> FALSE, dt |-> 0, at |-> 0,
                  accepted_before |-> 0]
    /\ gov_prev_call = [valid |-> FALSE, at |-> 0]

\* current_fps > target_fps with current_fps = 1.0 / dt if dt > 0 else 0,
\* dt in ticks: 1/dt_seconds > fps  <=>  TicksPerSecond > fps * dt
TooFast_NonStrict(dt, fps) == dt > 0 /\ TicksPerSecond >= fps * dt
TooFast(dt, fps) == dt > 0 /\ TicksPerSecond > fps * dt

\* the value should_skip_frame returns at time t
SkipDecision(settings, t, last) ==
    IF ~settings.enable_frame_skipping THEN FALSE
    ELSE TooFast(t - last, settings.target_fps)

\* the value of self.last_frame_time after should_skip_frame ran at time t
LastFrameAfter_Always(settings, skip, t, last) == t
LastFrameAfter(settings, skip, t, last) ==
    IF ~settings.enable_frame_skipping \/ skip THEN last ELSE t

ShouldSkipFramePart(horizon) ==
    LET skip == SkipDecision(optimization_settings, now, last_frame_time)
    IN  /\ gov_calls < horizon
        /\ gov_calls' = gov_calls + 1
        /\ last_frame_time' =
               LastFrameAfter(optimization_settings, skip, now, last_frame_time)
        /\ gov_prev_call' = [valid |-> gov_obs.op = "skip", at |-> gov_obs.at]
        /\ gov_obs' = [op |-> "skip", ret |-> skip, dt |-> now - last_frame_time,
                       at |-> now, accepted_before |-> last_frame_time]

should_skip_frame ==
    /\ ShouldSkipFramePart(MaxSkipCalls)
    /\ UNCHANGED <<now, extVars, optimization_settings, modeVars,
                   i3dVars, bufVars, fuseVars>>

GovTick ==
    /\ \E d \in GovSteps : Advance(d, GovTicks)
    /\ UNCHANGED <<extVars, modeVars, govVars, i3dVars, bufVars, fuseVars>>


-----------------------------------------------------------------------------
(* TemporalBuffer (app/models/i3d).  The class is not among the sources;   *)
(* it is modelled from the specification, sections 3 and 4.1.  A frame is  *)
(* represented by its sequence index in its buffer.                        *)

\* TemporalBuffer(...) as constructed by its three owners
ServiceBufferConfig_WrongStride ==
    [buffer_size |-> 128, sequence_length |-> 64, stride |-> 10,
     fps_target |-> 25, has_callback |-> TRUE]
ServiceBufferConfig_Larger ==
    [buffer_size |-> 256, sequence_length |-> 64, stride |-> 16,
     fps_target |-> 25, has_callback |-> TRUE]
ServiceBufferConfig ==
    [buffer_size |-> 128, sequence_length |-> 64, stride |-> 16,
     fps_target |-> 25, has_callback |-> TRUE]
EnsI3DBufferConfig ==
    [buffer_size |-> 128, sequence_length |-> 64, stride |-> 16,
     fps_target |-> 25, has_callback |-> FALSE]
EnsPoseBufferConfig_Copied ==
    [buffer_size |-> 64, sequence_length |-> 64, stride |-> 10,
     fps_target |-> 15, has_callback |-> FALSE]
EnsPoseBufferConfig ==
    [buffer_size |-> 64, sequence_length |-> 30, stride |-> 10,
     fps_target |-> 15, has_callback |-> FALSE]

MaxDrops == 1                    \* frames a full buffer may refuse per run

EmptyBuffer ==
    [buffer |-> <<>>, total_frames |-> 0, frames_since_last |-> 0,
     dropped |-> 0]

LastN(s, n) == SubSeq(s, Len(s) - n + 1, Len(s))

\* index (from 0) of the source frame used for position i (from 0) when
\* `len` frames are resampled to n: evenly spaced, edge frames repeated
ResampleIndex(i, len, n) ==
    IF n <= 1 THEN 0 ELSE (i * (len - 1)) \div (n - 1)

interpolate_frames(frames, n) ==
    [i \in 1..n |-> frames[ResampleIndex(i - 1, Len(frames), n) + 1]]

\* the most recent sequence_length frames, resampled to sequence_length
ExtractSequence(st, cfg) ==
    interpolate_frames(LastN(st.buffer, cfg.sequence_length),
                       cfg.sequence_length)

\* the stride trigger checked after every accepted frame
StrideTrigger(st, cfg) ==
    /\ st.frames_since_last >= cfg.stride
    /\ Len(st.buffer) >= cfg.sequence_length

IsFull(st, cfg) == Len(st.buffer) >= cfg.buffer_size

\* add_frame: the new buffer state, the value returned and the sequence
\* emitted (<<>> when none).  A full buffer either overwrites its oldest
\* entry (ring buffer) or refuses the frame (accept = FALSE).
AddFrame(st, cfg, accept) ==
    LET id      == st.total_frames + 1
        counted == [st EXCEPT !.total_frames = id]
    IN  IF IsFull(st, cfg) /\ ~accept
        THEN [state   |-> [counted EXCEPT !.dropped = @ + 1],
              ret     |-> FALSE,
              emitted |-> <<>>]
        ELSE LET appended == Append(st.buffer, id)
                 ring == IF Len(appended) > cfg.buffer_size
                         THEN Tail(appended) ELSE appended
                 st1  == [counted EXCEPT !.buffer = ring,
                                         !.frames_since_last = @ + 1]
             IN  IF StrideTrigger(st1, cfg)
                 THEN [state   |-> [st1 EXCEPT !.frames_since_last = 0],
                       ret     |-> TRUE,
                       emitted |-> ExtractSequence(st1, cfg)]
                 ELSE [state |-> st1, ret |-> TRUE, emitted |-> <<>>]

\* get_latest_sequence: <<>> stands for None
LatestSequence(st, cfg) ==
    IF Len(st.buffer) < cfg.sequence_length THEN <<>>
    ELSE ExtractSequence(st, cfg)

TotalDropped ==
    temporal_buffer.dropped + i3d_buffer.dropped + pose_buffer.dropped

\* whether add_frame may answer `accept` for this buffer in this run
AcceptChoice(st, cfg, accept) ==
    accept \/ (IsFull(st, cfg) /\ TotalDropped < MaxDrops)

-----------------------------------------------------------------------------
(* I3DTranslatorService *)

QueueMaxSize == 5
I3DMaxFrames == 148              \* frames offered to the service per run

NoSeqObs == [op |-> "none", buf |-> "none", ok |-> FALSE, seq |-> <<>>]

I3DInit ==
    /\ temporal_buffer = EmptyBuffer
    /\ put_tasks = <<>>
    /\ processing_queue = <<>>
    /\ service_offered = 0
    /\ emit_log = <<>>
    /\ frame_obs = [op |-> "init", ret |-> FALSE, frame |-> 0]

QueueInit ==
    /\ task_full = <<>>
    /\ dropped_seqs = {}
    /\ queue_obs = [op |-> "init", full_at_emit |-> FALSE, len_before |-> 0]

\* _on_sequence_ready: create_task(self._add_to_queue(frames))
on_sequence_ready(tasks, sequence) == Append(tasks, sequence)

\* I3DTranslatorService.process_frame, with the callback the buffer makes
I3DProcessFramePart(accept, horizon) ==
    LET r == AddFrame(temporal_buffer, ServiceBufferConfig, accept)
        emitted == r.emitted # <<>> /\ ServiceBufferConfig.has_callback
    IN  /\ service_offered < horizon
        /\ AcceptChoice(temporal_buffer, ServiceBufferConfig, accept)
        /\ service_offered' = service_offered + 1
        /\ temporal_buffer' = r.state
        /\ put_tasks' = IF emitted THEN on_sequence_ready(put_tasks, r.emitted)
                        ELSE put_tasks
        /\ emit_log' = IF emitted
                       THEN Append(emit_log, r.state.total_frames)
                       ELSE emit_log
        /\ frame_obs' = [op |-> "process_frame", ret |-> r.ret,
                         frame |-> r.state.total_frames]
        /\ task_full' =
               IF emitted
               THEN Append(task_full, Len(processing_queue) = QueueMaxSize)
               ELSE task_full
        /\ UNCHANGED <<dropped_seqs, queue_obs>>

process_frame(accept) ==
    /\ I3DProcessFramePart(accept, I3DMaxFrames)
    /\ seq_obs' = NoSeqObs
    /\ UNCHANGED <<now, extOther, modeVars, govVars, processing_queue, i3d_buffer,
                   pose_buffer, ens_offered, pose_rejects, fuseVars>>

\* _add_to_queue: the oldest pending task puts its frames, or times out and
\* drops them when the queue is full
\* asyncio.Queue(maxsize=5).put ending: with the frames in the queue, or,
\* the queue still full at the timeout, with the queue as it was
QueuePut_Unbounded(q, frames) == Append(q, frames)
QueuePut(q, frames) ==
    IF Len(q) < QueueMaxSize THEN Append(q, frames) ELSE q

add_to_queue ==
    /\ put_tasks # <<>>
    /\ put_tasks' = Tail(put_tasks)
    /\ processing_queue' = QueuePut(processing_queue, Head(put_tasks))
    /\ task_full' = Tail(task_full)
    /\ dropped_seqs' = IF Len(processing_queue) < QueueMaxSize
                       THEN dropped_seqs
                       ELSE dropped_seqs \cup {Head(put_tasks)}
    /\ queue_obs' = [op |-> IF Len(processing_queue) < QueueMaxSize
                            THEN "put" ELSE "drop",
                     full_at_emit |-> Head(task_full),
                     len_before |-> Len(processing_queue)]
    /\ UNCHANGED <<now, extOther, modeVars, govVars, temporal_buffer, service_offered,
                   emit_log, frame_obs, bufVars, fuseVars>>

-----------------------------------------------------------------------------
(* EnsembleTranslator: frame intake *)

AsmMaxFrames   == 66             \* frames taken in by detect_hands per run
MaxPoseRejects == 1              \* frames with pose confidence <= 0.5 per run

SERVICE  == "temporal_buffer"
ENS_I3D  == "i3d_buffer"
ENS_POSE == "pose_buffer"

EnsBufInit ==
    /\ i3d_buffer = EmptyBuffer
    /\ pose_buffer = EmptyBuffer
    /\ ens_offered = 0
    /\ pose_rejects = 0
    /\ seq_obs = NoSeqObs

\* EnsembleTranslator.process_frame
EnsProcessFramePart(pose_good, accept_i3d, accept_pose, horizon) ==
    LET r1 == AddFrame(i3d_buffer, EnsI3DBufferConfig, accept_i3d)
        r2 == AddFrame(pose_buffer, EnsPoseBufferConfig, accept_pose)
    IN  /\ ens_offered < horizon
        /\ AcceptChoice(i3d_buffer, EnsI3DBufferConfig, accept_i3d)
        /\ ens_offered' = ens_offered + 1
        /\ i3d_buffer' = r1.state
        /\ IF pose_good
           THEN /\ AcceptChoice(pose_buffer, EnsPoseBufferConfig, accept_pose)
                /\ pose_buffer' = r2.state
                /\ pose_rejects' = pose_rejects
           ELSE /\ accept_pose
                /\ pose_rejects < MaxPoseRejects
                /\ pose_rejects' = pose_rejects + 1
                /\ pose_buffer' = pose_buffer

\* HandDetector.detect_hands: one image is handed to process_video_frame
\* and to process_video_frame_ensemble
DetectHandsPart(pose_good, accept_svc, accept_i3d, accept_pose) ==
    /\ I3DProcessFramePart(accept_svc, AsmMaxFrames)
    /\ EnsProcessFramePart(pose_good, accept_i3d, accept_pose, AsmMaxFrames)
    /\ seq_obs' = NoSeqObs

detect_hands(pose_good, accept_svc, accept_i3d, accept_pose) ==
    /\ DetectHandsPart(pose_good, accept_svc, accept_i3d, accept_pose)
    /\ UNCHANGED <<now, extOther, modeVars, govVars, processing_queue, fuseVars>>

BufferOf(b) ==
    CASE b = SERVICE  -> temporal_buffer
      [] b = ENS_I3D  -> i3d_buffer
      [] b = ENS_POSE -> pose_buffer

ConfigOf(b) ==
    CASE b = SERVICE  -> ServiceBufferConfig
      [] b = ENS_I3D  -> EnsI3DBufferConfig
      [] b = ENS_POSE -> EnsPoseBufferConfig

\* a get_latest_sequence call on one of the buffers
get_latest_sequence(b) ==
    LET seq == LatestSequence(BufferOf(b), ConfigOf(b))
    IN  /\ seq_obs' = [op |-> "get_latest_sequence", buf |-> b,
                       ok |-> seq # <<>>, seq |-> seq]
        /\ UNCHANGED <<now, extVars, modeVars, govVars, i3dVars, i3d_buffer,
                       pose_buffer, ens_offered, pose_rejects, fuseVars>>


-----------------------------------------------------------------------------
(* Exact rational arithmetic: <<numerator, denominator>> in lowest terms,  *)
(* denominator positive.  Stands for the floats of the code.               *)

Abs(x) == IF x < 0 THEN -x ELSE x

RECURSIVE GCD(_, _)
GCD(a, b) == IF b = 0 THEN a ELSE GCD(b, a % b)

Rat(n, d) ==
    LET g  == GCD(Abs(n), Abs(d))
        sg == IF d < 0 THEN -1 ELSE 1
    IN  <<(sg * n) \div g, (sg * d) \div g>>

RZero == <<0, 1>>
ROne  == <<1, 1>>
RHalf == <<1, 2>>
RAdd(a, b) == Rat(a[1] * b[2] + b[1] * a[2], a[2] * b[2])
RMul(a, b) == Rat(a[1] * b[1], a[2] * b[2])
RDiv(a, b) == Rat(a[1] * b[2], a[2] * b[1])
RLess(a, b) == a[1] * b[2] < b[1] * a[2]

RECURSIVE SumValues(_)
SumValues(f) ==
    IF DOMAIN f = {} THEN RZero
    ELSE LET k == CHOOSE x \in DOMAIN f : TRUE
         IN  RAdd(f[k], SumValues([x \in DOMAIN f \ {k} |-> f[x]]))

\* sum(d.values()) for a dict of integers
RECURSIVE SumInts(_)
SumInts(f) ==
    IF DOMAIN f = {} THEN 0
    ELSE LET k == CHOOSE x \in DOMAIN f : TRUE
         IN  f[k] + SumInts([x \in DOMAIN f \ {k} |-> f[x]])

-----------------------------------------------------------------------------
(* EnsembleTranslator: fusion *)

I3D  == "i3d"
TGCN == "tgcn"

\* prediction ids are positions in the vocabulary (id 0 is position 1)
Vocabulary == <<"hello", "yes", "thanks">>
Labels == 1..Len(Vocabulary)
LabelOf(gloss) == CHOOSE i \in Labels : Vocabulary[i] = gloss

\* probabilities a scorer reports, in twentieths
ProbUnit == 4 * 5
H95 == <<19, 1, 0>>              \* "hello" with confidence 0.95
Y40 == <<6, 8, 6>>               \* "yes" with confidence 0.40
Y90 == <<1, 18, 1>>              \* "yes" with confidence 0.90
H55 == <<11, 9, 0>>              \* "hello" with confidence 0.55
TIE == <<10, 10, 0>>             \* "hello" and "yes" level at 0.50
Dists == {H95, H55, Y40, Y90, TIE}

MaxFusions       == 1            \* get_ensemble_translation calls per run
MaxWeightUpdates == 1            \* update_ensemble_weights calls per run
results_cache_maxlen == 10

\* weights offered to update_ensemble_weights (POST /api/v1/ensemble/config
\* hands over any mapping of names to numbers): equal, pose-heavy, one
\* channel only, one channel negative
WeightInputs ==
    { (I3D :> 1 @@ TGCN :> 1), (I3D :> 1 @@ TGCN :> 3), (I3D :> 1),
      (I3D :> -1 @@ TGCN :> 2) }

\* buffer fill levels (frames taken by i3d_buffer, by pose_buffer) a run of
\* the fusion starts from; each is reached by process_frame calls
FillLevels == { <<0, 0>>, <<40, 30>>, <<64, 0>>, <<64, 30>> }

\* the buffer after n more accepted add_frame calls
RECURSIVE Filled(_, _, _)
Filled(st, cfg, n) ==
    IF n = 0 THEN st
    ELSE LET next == AddFrame(st, cfg, TRUE).state
         IN  IF next.total_frames > st.total_frames
             THEN Filled(next, cfg, n - 1)
             ELSE next

ToRat(d) == [l \in Labels |-> Rat(d[l], ProbUnit)]

\* np.argmax: the first position holding the maximum
ArgMax(v) ==
    CHOOSE i \in DOMAIN v :
        /\ \A j \in DOMAIN v : ~RLess(v[i], v[j])
        /\ \A j \in DOMAIN v : j < i => RLess(v[j], v[i])

\* what a scorer call hands back: a Distribution, or a failure
Success(model, d) ==
    LET probs == ToRat(d)
        top   == ArgMax(probs)
    IN  [success |-> TRUE, model |-> model, prediction |-> top,
         confidence |-> probs[top], probabilities |-> probs]
Failure(model) == [success |-> FALSE, model |-> model]
ScorerOutcomes(model) ==
    {Failure(model)} \cup {Success(model, d) : d \in Dists}

DefaultWeights == (I3D :> <<3, 5>> @@ TGCN :> <<2, 5>>)

FuseInit ==
    /\ ensemble_weights = DefaultWeights
    /\ stats = [ensemble_predictions |-> 0, i3d_only |-> 0, tgcn_only |-> 0,
                agreement_rate |-> RZero, average_confidence |-> RZero]
    /\ results_cache = <<>>
    /\ ensemble_enabled = TRUE
    /\ fuse_calls = 0
    /\ weight_updates = 0
    /\ fuse_obs = [op |-> "init"]

\* self.ensemble_weights.get(model, 0.5)
WeightOf(weights, model) ==
    IF model \in DOMAIN weights THEN weights[model] ELSE RHalf

\* ensemble_probs = weighted_probs / ensemble_probs += weighted_probs
Accumulate_Overwrite(ensemble_probs, weighted_probs) == weighted_probs
Accumulate(ensemble_probs, weighted_probs) ==
    IF ensemble_probs = <<>> THEN weighted_probs
    ELSE [l \in Labels |-> RAdd(ensemble_probs[l], weighted_probs[l])]

\* the loop over valid_predictions, lines 210-221
RECURSIVE WeightedSum(_, _, _)
WeightedSum(preds, weights, ensemble_probs) ==
    IF preds = <<>> THEN ensemble_probs
    ELSE LET pred == Head(preds)
             weight == WeightOf(weights, pred.model)
             weighted_probs ==
                 [l \in Labels |-> RMul(pred.probabilities[l], weight)]
         IN  WeightedSum(Tail(preds), weights,
                         Accumulate(ensemble_probs, weighted_probs))

\* model_results, lines 223-229
ModelResults(preds) ==
    [m \in {preds[i].model : i \in 1..Len(preds)} |->
        LET pred == preds[CHOOSE i \in 1..Len(preds) : preds[i].model = m]
        IN  [prediction |-> pred.prediction, confidence |-> pred.confidence]]

\* len(set(model_predictions)) == 1
Agreement(model_results) ==
    Cardinality({model_results[m].prediction : m \in DOMAIN model_results}) = 1

\* the running means of lines 252-259
RunningMean(mean, n, x) ==
    RDiv(RAdd(RMul(mean, <<n - 1, 1>>), x), <<n, 1>>)

EnsembleStats(st, agreement, confidence) ==
    LET n == st.ensemble_predictions + 1
    IN  [st EXCEPT
           !.ensemble_predictions = n,
           !.agreement_rate =
               RunningMean(st.agreement_rate, n,
                           IF agreement THEN ROne ELSE RZero),
           !.average_confidence =
               RunningMean(st.average_confidence, n, confidence)]

\* self.stats[f"{model}_only"] += 1
SingleStats_AlwaysI3D(st, model) == [st EXCEPT !.i3d_only = @ + 1]
SingleStats(st, model) ==
    IF model = I3D THEN [st EXCEPT !.i3d_only = @ + 1]
    ELSE [st EXCEPT !.tgcn_only = @ + 1]

\* deque(maxlen=10).append
CacheAppend(cache, result) ==
    LET appended == Append(cache, result)
    IN  IF Len(appended) > results_cache_maxlen THEN Tail(appended)
        ELSE appended

IsValid(p) == p.success
ValidPredictions(predictions) == SelectSeq(predictions, IsValid)

\* result = valid_predictions[0].copy() with method and models_used set
SingleResult(pred) ==
    [k \in DOMAIN pred \cup {"method", "models_used"} |->
        IF k = "method" THEN "ensemble_single"
        ELSE IF k = "models_used" THEN <<pred.model>>
        ELSE pred[k]]

\* the two-channel combination, lines 206-276
EnsembleResult(valid, weights) ==
    LET summed         == WeightedSum(valid, weights, <<>>)
        total          == SumValues(weights)
        ensemble_probs == [l \in Labels |-> RDiv(summed[l], total)]
        prediction_id  == ArgMax(ensemble_probs)
        model_results  == ModelResults(valid)
    IN  [success       |-> TRUE,
         prediction    |-> prediction_id,
         gloss         |-> Vocabulary[prediction_id],
         confidence    |-> ensemble_probs[prediction_id],
         probabilities |-> ensemble_probs,
         method        |-> "ensemble",
         models_used   |-> [i \in 1..Len(valid) |-> valid[i].model],
         model_results |-> model_results,
         agreement     |-> Agreement(model_results)]

\* _ensemble_predictions: the result, the statistics and the results cache
EnsemblePredictions(predictions, weights, st, cache) ==
    LET valid == ValidPredictions(predictions)
    IN  IF valid = <<>>
        THEN [result |-> [success |-> FALSE, error |-> "No valid predictions",
                          method |-> "ensemble"],
              stats |-> st, cache |-> cache]
        ELSE IF Len(valid) = 1
        THEN [result |-> SingleResult(valid[1]),
              stats  |-> SingleStats(st, valid[1].model),
              cache  |-> cache]
        ELSE LET result == EnsembleResult(valid, weights)
             IN  [result |-> result,
                  stats  |-> EnsembleStats(st, result.agreement,
                                           result.confidence),
                  cache  |-> CacheAppend(cache, result)]

\* get_ensemble_prediction: i3d_out and tgcn_out are what the two scorer
\* calls hand back when they are made
EnsemblePrediction(i3d_out, tgcn_out, weights, st, cache) ==
    LET i3d_sequence  == LatestSequence(i3d_buffer, EnsI3DBufferConfig)
        pose_sequence == LatestSequence(pose_buffer, EnsPoseBufferConfig)
        predictions ==
            (IF i3d_sequence # <<>> THEN <<i3d_out>> ELSE <<>>)
            \o (IF pose_sequence # <<>> THEN <<tgcn_out>> ELSE <<>>)
    IN  IF predictions = <<>>
        THEN [result |-> None, stats |-> st, cache |-> cache,
              predictions |-> predictions]
        ELSE [p \in {"predictions"} |-> predictions]
             @@ EnsemblePredictions(predictions, weights, st, cache)

\* `if result and result.get('success'): ... return result` / `return None`
TranslationResult_Unfiltered(result) == result
TranslationResult(result) ==
    IF result # None /\ result.success THEN result ELSE None

\* TranslationEngine.get_ensemble_translation, at most horizon calls per run
FuseBody(i3d_out, tgcn_out, horizon) ==
    LET r == EnsemblePrediction(i3d_out, tgcn_out, ensemble_weights, stats,
                                results_cache)
    IN  /\ fuse_calls < horizon
        /\ fuse_calls' = fuse_calls + 1
        /\ IF ensemble_enabled
           THEN /\ stats' = r.stats
                /\ results_cache' = r.cache
                /\ fuse_obs' = [op |-> "get_ensemble_translation",
                                enabled |-> TRUE,
                                predictions |-> r.predictions,
                                weights |-> ensemble_weights,
                                stats_before |-> stats,
                                cache_before |-> results_cache,
                                fused |-> r.result,
                                ret |-> TranslationResult(r.result)]
           ELSE /\ UNCHANGED <<stats, results_cache>>
                /\ fuse_obs' = [op |-> "get_ensemble_translation",
                                enabled |-> FALSE,
                                predictions |-> <<>>,
                                weights |-> ensemble_weights,
                                stats_before |-> stats,
                                cache_before |-> results_cache,
                                fused |-> None,
                                ret |-> None]

FusePart(i3d_out, tgcn_out, horizon) ==
    /\ FuseBody(i3d_out, tgcn_out, horizon)
    /\ UNCHANGED <<now, extVars, modeVars, govVars, i3dVars, bufVars,
                   ensemble_weights, ensemble_enabled, weight_updates>>

get_ensemble_translation(i3d_out, tgcn_out) ==
    FusePart(i3d_out, tgcn_out, MaxFusions)

\* `self.ensemble_weights = {...}` binds the attribute to a new dict and
\* leaves the dict it named before as it is
NewObject_InPlace(gen) == gen
NewObject(gen) == gen + 1

\* update_ensemble_weights; a zero total raises ZeroDivisionError before
\* anything is assigned
update_ensemble_weights(weights) ==
    LET total == SumInts(weights)
    IN  /\ weight_updates < MaxWeightUpdates
        /\ weight_updates' = weight_updates + 1
        /\ ensemble_weights' =
               IF total = 0 THEN ensemble_weights
               ELSE [k \in DOMAIN weights |-> Rat(weights[k], total)]
        /\ weights_gen' =
               IF total = 0 THEN weights_gen ELSE NewObject(weights_gen)
        /\ UNCHANGED <<now, adapt_obs, concVars, active_sessions, qualVars,
                       wsVars, lateVars, queueVars, scorer_obs, snap_obs, i3d_obs,
                       modeVars, govVars, i3dVars, bufVars, stats,
                       results_cache, ensemble_enabled, fuse_calls, fuse_obs>>

\* TranslationEngine.set_ensemble_enabled
set_ensemble_enabled(enabled) ==
    /\ enabled # ensemble_enabled
    /\ ensemble_enabled' = enabled
    /\ UNCHANGED <<now, extVars, modeVars, govVars, i3dVars, bufVars, ensemble_weights,
                   stats, results_cache, fuse_calls, weight_updates, fuse_obs>>

-----------------------------------------------------------------------------
(* EnsembleTranslator: adaptive weights and statistics *)

AdaptMinResults == 5             \* `if len(self.results_cache) < 5`
AdaptFusions    == 5             \* fusions per run of the adaptive-weights model

\* np.mean of a non-empty list
Mean(xs) ==
    LET RECURSIVE Sum(_)
        Sum(i) == IF i = 0 THEN RZero ELSE RAdd(xs[i], Sum(i - 1))
    IN  RDiv(Sum(Len(xs)), <<Len(xs), 1>>)

\* model_confidences[model]: the confidences the cached results hold for it
ModelConfidences(cache, model) ==
    LET Has(r) == /\ "model_results" \in DOMAIN r
                  /\ model \in DOMAIN r.model_results
        kept   == SelectSeq(cache, Has)
    IN  [i \in 1..Len(kept) |-> kept[i].model_results[model].confidence]

\* the value get_adaptive_weights returns
AdaptiveWeights(cache, weights) ==
    IF Len(cache) < AdaptMinResults THEN weights
    ELSE LET raw == [m \in {I3D, TGCN} |->
                        IF ModelConfidences(cache, m) # <<>>
                        THEN Mean(ModelConfidences(cache, m))
                        ELSE RHalf]
             total == SumValues(raw)
         IN  IF RLess(RZero, total)
             THEN [m \in {I3D, TGCN} |-> RDiv(raw[m], total)]
             ELSE raw

\* self.ensemble_weights after get_adaptive_weights: it is read, never
\* assigned
WeightsAfterAdaptive_Applied(current, adaptive) == adaptive
WeightsAfterAdaptive(current, adaptive) == current

\* TemporalBuffer.get_buffer_info
BufferInfo(st) ==
    [current_size |-> Len(st.buffer), total_frames |-> st.total_frames]

get_adaptive_weights ==
    LET adaptive == AdaptiveWeights(results_cache, ensemble_weights)
    IN  /\ adapt_obs' = [op |-> "get_adaptive_weights", ret |-> adaptive,
                         weights_before |-> ensemble_weights]
        /\ ensemble_weights' = WeightsAfterAdaptive(ensemble_weights, adaptive)
        /\ UNCHANGED <<now, concVars, active_sessions, qualVars, queueVars, wsVars, lateVars, accVars, modeVars, govVars,
                       i3dVars, bufVars, stats, results_cache, ensemble_enabled, fuse_calls,
                       weight_updates, fuse_obs>>

get_stats ==
    LET adaptive == AdaptiveWeights(results_cache, ensemble_weights)
        ret == [k \in DOMAIN stats
                      \cup {"current_weights", "adaptive_weights",
                            "i3d_buffer_info", "pose_buffer_info"} |->
                   CASE k = "current_weights"  -> ensemble_weights
                     [] k = "adaptive_weights" -> adaptive
                     [] k = "i3d_buffer_info"  -> BufferInfo(i3d_buffer)
                     [] k = "pose_buffer_info" -> BufferInfo(pose_buffer)
                     [] OTHER                  -> stats[k]]
    IN  /\ adapt_obs' = [op |-> "get_stats", ret |-> ret,
                         weights_before |-> ensemble_weights]
        /\ ensemble_weights' = WeightsAfterAdaptive(ensemble_weights, adaptive)
        /\ snap_obs' =
               [op |-> "get_stats", value |-> ret, gen |-> weights_gen,
                aliased |-> {"current_weights"} \cup
                            (IF Len(results_cache) < AdaptMinResults
                             THEN {"adaptive_weights"} ELSE {})]
        /\ UNCHANGED <<now, concVars, active_sessions, qualVars, queueVars,
                       wsVars, lateVars, scorer_obs, weights_gen, i3d_obs, modeVars, govVars,
                       i3dVars, bufVars, stats, results_cache, ensemble_enabled, fuse_calls,
                       weight_updates, fuse_obs>>

-----------------------------------------------------------------------------
(* _ensemble_predictions (two valid predictions) and get_stats, one         *)
(* statement per step.  All callers are coroutines of one event loop and    *)
(* neither function awaits, so a call runs to its return before another     *)
(* call starts.                                                             *)

ConcFusions == 3                 \* two-channel fusions per run
FUSION == "fusion"
READER == "reader"
FREE   == "free"

ConcInit ==
    /\ conc_pc = "idle"
    /\ cache_lock = FREE
    /\ conc_local = None
    /\ conc_done = 0
    /\ conc_obs = [op |-> "init", wrote |-> "none", lock_held |-> FALSE,
                   snapshot |-> None, done |-> 0]

ConcObs(op, wrote, holder) ==
    [op |-> op, wrote |-> wrote, lock_held |-> cache_lock = holder,
     snapshot |-> None, done |-> conc_done]

ConcFrame ==
    UNCHANGED <<now, adapt_obs, active_sessions, qualVars, queueVars, wsVars, lateVars, accVars, modeVars, govVars, i3dVars, bufVars,
                ensemble_weights, ensemble_enabled, fuse_calls,
                weight_updates, fuse_obs>>

\* lines 206-249: the combination and the agreement flag, in locals
ep_combine(i3d_out, tgcn_out) ==
    /\ conc_pc = "idle"
    /\ conc_done < ConcFusions
    /\ conc_local' = EnsembleResult(<<i3d_out, tgcn_out>>, ensemble_weights)
    /\ conc_pc' = "count"
    /\ conc_obs' = ConcObs("combine", "none", FUSION)
    /\ UNCHANGED <<stats, results_cache, cache_lock, conc_done>>
    /\ ConcFrame

\* line 252: self.stats['ensemble_predictions'] += 1
ep_count ==
    /\ conc_pc = "count"
    /\ stats' = [stats EXCEPT !.ensemble_predictions = @ + 1]
    /\ conc_pc' = "agreement_rate"
    /\ conc_obs' = ConcObs("count", "stats", FUSION)
    /\ UNCHANGED <<results_cache, cache_lock, conc_local, conc_done>>
    /\ ConcFrame

\* lines 253-256
ep_agreement_rate ==
    /\ conc_pc = "agreement_rate"
    /\ stats' = [stats EXCEPT !.agreement_rate =
                    RunningMean(@, stats.ensemble_predictions,
                                IF conc_local.agreement THEN ROne ELSE RZero)]
    /\ conc_pc' = "average_confidence"
    /\ conc_obs' = ConcObs("agreement_rate", "stats", FUSION)
    /\ UNCHANGED <<results_cache, cache_lock, conc_local, conc_done>>
    /\ ConcFrame

\* lines 257-259
ep_average_confidence ==
    /\ conc_pc = "average_confidence"
    /\ stats' = [stats EXCEPT !.average_confidence =
                    RunningMean(@, stats.ensemble_predictions,
                                conc_local.confidence)]
    /\ conc_pc' = "acquire"
    /\ conc_obs' = ConcObs("average_confidence", "stats", FUSION)
    /\ UNCHANGED <<results_cache, cache_lock, conc_local, conc_done>>
    /\ ConcFrame

\* line 279: with self.cache_lock
ep_acquire ==
    /\ conc_pc = "acquire"
    /\ cache_lock = FREE
    /\ cache_lock' = FUSION
    /\ conc_pc' = "append"
    /\ conc_obs' = ConcObs("acquire", "none", FUSION)
    /\ UNCHANGED <<stats, results_cache, conc_local, conc_done>>
    /\ ConcFrame

\* line 280: self.results_cache.append(result)
ep_append ==
    /\ conc_pc = "append"
    /\ results_cache' = CacheAppend(results_cache, conc_local)
    /\ conc_pc' = "release"
    /\ conc_obs' = ConcObs("append", "results_cache", FUSION)
    /\ UNCHANGED <<stats, cache_lock, conc_local, conc_done>>
    /\ ConcFrame

\* leaving the with block, line 282: return result
ep_return ==
    /\ conc_pc = "release"
    /\ cache_lock' = FREE
    /\ conc_pc' = "idle"
    /\ conc_local' = None
    /\ conc_done' = conc_done + 1
    /\ conc_obs' = ConcObs("return", "none", FUSION)
    /\ UNCHANGED <<stats, results_cache>>
    /\ ConcFrame

\* get_stats, line 333: stats = self.stats.copy()
stats_copy ==
    /\ conc_pc = "idle"
    /\ conc_obs' = [op |-> "stats_copy", wrote |-> "none",
                    lock_held |-> cache_lock = READER,
                    snapshot |-> stats, done |-> conc_done]
    /\ UNCHANGED <<stats, results_cache, cache_lock, conc_pc, conc_local,
                   conc_done>>
    /\ ConcFrame

-----------------------------------------------------------------------------
(* ConnectionManager and the session endpoints *)

MaxSessions == 2                 \* start_session calls per run

\* session_id = f"session_{datetime.now().strftime('%Y%m%d_%H%M%S')}": the
\* clock reading to the second
SessionId(t) == t \div TicksPerSecond

\* POST /api/v1/session/start.  The process holds one ConnectionManager with
\* one ModeManager; the handler clears the translation context, starts the
\* replay recording and registers the session.
start_session ==
    /\ Cardinality(active_sessions) < MaxSessions
    /\ active_sessions' = active_sessions \cup {SessionId(now)}
    /\ mode_obs' = [op |-> "start_session",
                    since |-> now - last_mode_switch,
                    before |-> current_mode, ret |-> current_mode,
                    at |-> now, has_hands |-> FALSE,
                    set_at |-> mode_obs.set_at, set_to |-> mode_obs.set_to,
                    samples |-> mode_obs.samples]
    /\ mode_prev' = [valid |-> FALSE, ret |-> AUTO_DETECT, at |-> 0]
    /\ UNCHANGED <<now, adapt_obs, concVars, qualVars, queueVars, wsVars, lateVars, accVars, current_mode,
                   last_mode_switch, audio_levels, motion_levels, mode_calls, govVars, i3dVars,
                   bufVars, fuseVars>>

-----------------------------------------------------------------------------
(* PerformanceOptimizer: latency windows and quality adjustment *)

metrics_maxlen == 100            \* deque(maxlen=100)
MaxSamples     == 3              \* latency samples recorded per run

MetricNames ==
    {"audio_latency", "video_latency", "translation_latency", "frame_rate",
     "audio_processing_time", "video_processing_time"}

\* elapsed times (ms) a measurement can come to; metric names offered to
\* measure_latency, one of them not a metric
LatencyInputs == {30, 120}
NameInputs    == {"video_latency", "audio_latency", "translation_latency",
                  "other"}

QualInit ==
    /\ metrics = [m \in MetricNames |-> <<>>]
    /\ qual_samples = 0
    /\ qual_obs = [op |-> "init", before |-> None, name |-> "", ret |-> 0,
                   evicted |-> -1]

\* deque.append on a window of at most metrics_maxlen samples
WindowAppend_DropNewest(w, x) ==
    IF Len(w) >= metrics_maxlen THEN w ELSE Append(w, x)
WindowAppend(w, x) ==
    LET appended == Append(w, x)
    IN  IF Len(appended) > metrics_maxlen THEN Tail(appended) ELSE appended

\* self.metrics after measure_latency(start_time, metric_name)
Measured(ms, metric_name, latency) ==
    IF metric_name \in DOMAIN ms
    THEN [ms EXCEPT ![metric_name] = WindowAppend(@, latency)]
    ELSE ms

\* the sample a full window loses to the next append (-1: none)
Evicted(ms, metric_name) ==
    IF metric_name \in DOMAIN ms /\ Len(ms[metric_name]) = metrics_maxlen
    THEN Head(ms[metric_name])
    ELSE -1

\* what a quality operation did: the settings it found, and the metric
\* name, the latency returned and the sample evicted by its measure_latency
QualObs(op, metric_name, latency) ==
    [op |-> op, before |-> optimization_settings, name |-> metric_name,
     ret |-> latency, evicted |-> Evicted(metrics, metric_name)]

QualFrame ==
    UNCHANGED <<now, adapt_obs, concVars, active_sessions, queueVars, wsVars, lateVars, accVars, modeVars,
                last_frame_time, gov_calls, gov_obs, gov_prev_call, i3dVars,
                bufVars, fuseVars>>

measure_latency(metric_name, latency) ==
    /\ qual_samples < MaxSamples
    /\ qual_samples' = qual_samples + 1
    /\ metrics' = Measured(metrics, metric_name, latency)
    /\ qual_obs' = QualObs("measure_latency", metric_name, latency)
    /\ UNCHANGED optimization_settings
    /\ QualFrame

\* the frame is resized and re-encoded; the time it took is recorded
optimize_video_frame(latency) ==
    /\ qual_samples < MaxSamples
    /\ qual_samples' = qual_samples + 1
    /\ metrics' = Measured(metrics, "video_processing_time", latency)
    /\ qual_obs' = QualObs("optimize_video_frame", "video_processing_time",
                            latency)
    /\ UNCHANGED optimization_settings
    /\ QualFrame

\* returns the chunk untouched, recording nothing, when compression is off
optimize_audio_chunk(latency) ==
    /\ qual_samples < MaxSamples
    /\ qual_samples' = qual_samples + 1
    /\ metrics' = IF optimization_settings.enable_audio_compression
                  THEN Measured(metrics, "audio_processing_time", latency)
                  ELSE metrics
    /\ qual_obs' = QualObs("optimize_audio_chunk",
                            IF optimization_settings.enable_audio_compression
                            THEN "audio_processing_time" ELSE "", latency)
    /\ UNCHANGED optimization_settings
    /\ QualFrame

\* stats.get(name, {}).get("avg", 0) > limit, for np.mean of the window
AvgOver(ms, name, limit) ==
    ms[name] # <<>> /\ SumSeq(ms[name]) > limit * Len(ms[name])

\* int(x * 0.8)
Scaled(x) == (x * 8) \div 10

\* (max(320, new_width), max(240, new_height))
ReducedResolution_NoFloor(res) == <<Scaled(res[1]), Scaled(res[2])>>
ReducedResolution(res) == <<Max(320, Scaled(res[1])), Max(240, Scaled(res[2]))>>

\* max(8000, rate - 2000)
ReducedSampleRate_Wrap(rate) ==
    IF rate - 2000 < 8000 THEN 16000 ELSE rate - 2000
ReducedSampleRate(rate) == Max(8000, rate - 2000)

\* self.optimization_settings after auto_adjust_quality
AdjustedSettings(os, ms) ==
    LET video == AvgOver(ms, "video_latency", 100)
        audio == AvgOver(ms, "audio_latency", 50)
    IN  [os EXCEPT
            !.max_resolution = IF video THEN ReducedResolution(@) ELSE @,
            !.audio_sample_rate = IF audio THEN ReducedSampleRate(@) ELSE @]

auto_adjust_quality ==
    /\ optimization_settings' =
           AdjustedSettings(optimization_settings, metrics)
    /\ qual_obs' = QualObs("auto_adjust_quality", "", 0)
    /\ UNCHANGED <<metrics, qual_samples>>
    /\ QualFrame

-----------------------------------------------------------------------------
(* websocket_endpoint: the receive loop of one client session *)

max_retries    == 3              \* max_retries = 3
ReceiveTimeout == 30             \* wait_for(receive_text(), timeout=30.0)
WaitStep       == ReceiveTimeout \div 3   \* granularity of the waiting time
MaxWsEvents    == 5              \* loop iterations per run

\* what process_unified_message returns: it catches every Exception itself
\* and answers with an error result
ResultTypes == {"translation_result", "frame_skipped", "error"}

\* after manager.connect
WsInit ==
    /\ ws_state = "open"
    /\ connected = TRUE
    /\ retry_count = 0
    /\ active_connections = 1
    /\ ws_waited = 0
    /\ ws_events = 0
    /\ ws_obs = [op |-> "connect", shape |-> "none", sent |-> <<>>,
                 retry_before |-> 0, waited |-> 0, queued |-> 0]

\* one pass through the body of the loop on a connected client: the new
\* retry_count, the messages sent, and whether the loop is left by break
Handled_EndsAtFirst(event, result, count) ==
    CASE event = "message" ->
             [retry |-> 0, sent |-> <<result>>, ends |-> FALSE]
      [] event = "timeout" ->
             [retry |-> count, sent |-> <<"ping">>, ends |-> FALSE]
      [] event = "invalid_json" ->
             [retry |-> count, sent |-> <<"error">>, ends |-> FALSE]
      [] event = "exception" ->
             [retry |-> count + 1, sent |-> <<"fatal_error">>, ends |-> TRUE]
Handled_TimeoutCounts(event, result, count) ==
    CASE event = "message" ->
             [retry |-> 0, sent |-> <<result>>, ends |-> FALSE]
      [] event = "invalid_json" ->
             [retry |-> count, sent |-> <<"error">>, ends |-> FALSE]
      [] event \in {"exception", "timeout"} ->
             IF count + 1 >= max_retries
             THEN [retry |-> count + 1, sent |-> <<"fatal_error">>,
                   ends |-> TRUE]
             ELSE [retry |-> count + 1, sent |-> <<"error">>, ends |-> FALSE]
Handled_JsonCounts(event, result, count) ==
    CASE event = "message" ->
             [retry |-> 0, sent |-> <<result>>, ends |-> FALSE]
      [] event = "timeout" ->
             [retry |-> count, sent |-> <<"ping">>, ends |-> FALSE]
      [] event \in {"exception", "invalid_json"} ->
             IF count + 1 >= max_retries
             THEN [retry |-> count + 1, sent |-> <<"fatal_error">>,
                   ends |-> TRUE]
             ELSE [retry |-> count + 1, sent |-> <<"error">>, ends |-> FALSE]
Handled(event, result, count) ==
    CASE event = "message" ->
             [retry |-> 0, sent |-> <<result>>, ends |-> FALSE]
      [] event = "timeout" ->
             [retry |-> count, sent |-> <<"ping">>, ends |-> FALSE]
      [] event = "invalid_json" ->
             [retry |-> count, sent |-> <<"error">>, ends |-> FALSE]
      [] event = "exception" ->
             IF count + 1 >= max_retries
             THEN [retry |-> count + 1, sent |-> <<"fatal_error">>,
                   ends |-> TRUE]
             ELSE [retry |-> count + 1, sent |-> <<"error">>, ends |-> FALSE]

WsObs(op, shape, sent) ==
    [op |-> op, shape |-> shape, sent |-> sent, retry_before |-> retry_count,
     waited |-> ws_waited, queued |-> Len(processing_queue)]

\* the part of an iteration that concerns the loop itself
WsIterationBody(event, shape, result) ==
    LET h == Handled(event, result, retry_count)
    IN  /\ ws_state = "open"
        /\ connected
        /\ retry_count' = h.retry
        /\ ws_state' = IF h.ends THEN "closed" ELSE "open"
        /\ ws_waited' = 0
        /\ ws_obs' = WsObs(event, shape, h.sent)
        /\ UNCHANGED <<connected, active_connections>>

WsIterationPart(event, shape, result) ==
    /\ ws_events < MaxWsEvents
    /\ ws_events' = ws_events + 1
    /\ WsIterationBody(event, shape, result)

WsFrame ==
    UNCHANGED <<now, adapt_obs, concVars, active_sessions, qualVars,
                queueVars, accVars, lateVars, modeVars, govVars, i3dVars, bufVars,
                fuseVars>>

\* the pending receive_text waits on
ws_wait ==
    /\ ws_state = "open"
    /\ connected
    /\ ws_waited < ReceiveTimeout
    /\ ws_waited' = ws_waited + WaitStep
    /\ UNCHANGED <<ws_state, connected, retry_count, active_connections,
                   ws_events, ws_obs>>
    /\ WsFrame

\* a text message that parses: the shape is "object" for a JSON object and
\* "other" for any other JSON value, on which message.get raises inside
\* process_unified_message
ws_message(shape, result) ==
    /\ shape = "other" => result = "error"
    /\ WsIterationPart("message", shape, result)
    /\ WsFrame

\* a message with a video frame: detect_hands hands the frame to the
\* assemblers of the one TranslationEngine
ws_video_message(pose_good, accept_svc, accept_i3d, accept_pose) ==
    /\ WsIterationBody("message", "object", "translation_result")
    /\ DetectHandsPart(pose_good, accept_svc, accept_i3d, accept_pose)
    /\ UNCHANGED <<now, adapt_obs, concVars, active_sessions, qualVars,
                   accVars, lateVars, ws_events, modeVars, govVars, processing_queue, fuseVars>>

\* a text message that json.loads rejects
ws_invalid_json ==
    /\ WsIterationPart("invalid_json", "none", "error")
    /\ WsFrame

\* wait_for gives up after ReceiveTimeout seconds without a message
ws_timeout ==
    /\ ws_waited >= ReceiveTimeout
    /\ WsIterationPart("timeout", "none", "error")
    /\ WsFrame

\* receive_text, json.dumps or send_text raises some other Exception
ws_exception ==
    /\ WsIterationPart("exception", "none", "error")
    /\ WsFrame

\* the client goes away
client_disconnect ==
    /\ ws_state = "open"
    /\ connected
    /\ connected' = FALSE
    /\ UNCHANGED <<ws_state, retry_count, active_connections, ws_waited,
                   ws_events, ws_obs>>
    /\ WsFrame

\* receive_text on a disconnected client raises WebSocketDisconnect, an
\* Exception, which the handler inside the loop takes: it counts and tries
\* to send.  The send on the dead connection raises (then the outer
\* handlers call manager.disconnect) or is swallowed by the server (then
\* the loop goes on and ends by break at max_retries, without
\* manager.disconnect).
ws_receive_disconnected(send_raises) ==
    /\ ws_state = "open"
    /\ ~connected
    /\ retry_count' = retry_count + 1
    /\ ws_state' = IF send_raises \/ retry_count + 1 >= max_retries
                   THEN "closed" ELSE "open"
    /\ active_connections' = IF send_raises THEN active_connections - 1
                             ELSE active_connections
    /\ ws_waited' = 0
    /\ ws_obs' = WsObs("disconnect", "none", <<>>)
    /\ UNCHANGED <<connected, ws_events>>
    /\ WsFrame

-----------------------------------------------------------------------------
(* EnsembleTranslator: the scorer calls of one get_ensemble_prediction *)

MaxCycles == 2                   \* get_ensemble_prediction calls per run

\* what processor.inference does: raise, report failure, or score
RAISES        == [kind |-> "raises"]
REPORTS_FALSE == [kind |-> "success_false"]
Scored(d)     == [kind |-> "scored", dist |-> d]
RawOutcomes   == {RAISES, REPORTS_FALSE, Scored(H95), Scored(Y40)}

\* _get_i3d_prediction / _get_tgcn_prediction: the result with its model
\* name, or the failure dict when inference raised.  A record with the
\* field `escaped` stands for an exception leaving the wrapper.
ScorerCall_Propagates(model, raw) ==
    CASE raw.kind = "raises" ->
             [success |-> FALSE, model |-> model, escaped |-> TRUE]
      [] raw.kind = "success_false" -> Failure(model)
      [] raw.kind = "scored" -> Success(model, raw.dist)
ScorerCall(model, raw) ==
    CASE raw.kind = "raises" -> Failure(model)
      [] raw.kind = "success_false" -> Failure(model)
      [] raw.kind = "scored" -> Success(model, raw.dist)

Escaped(p) == "escaped" \in DOMAIN p

\* the sequences get_ensemble_prediction hands to the two scorers: the
\* latest sequence of each buffer that has one
SequencesAtHand ==
    LET i3d_sequence  == LatestSequence(i3d_buffer, EnsI3DBufferConfig)
        pose_sequence == LatestSequence(pose_buffer, EnsPoseBufferConfig)
    IN  (IF i3d_sequence # <<>>
         THEN <<[buf |-> ENS_I3D, seq |-> i3d_sequence]>> ELSE <<>>)
        \o (IF pose_sequence # <<>>
            THEN <<[buf |-> ENS_POSE, seq |-> pose_sequence]>> ELSE <<>>)

\* the scorer calls of one fusion, none with the ensemble disabled
FusionScored ==
    IF ensemble_enabled THEN SequencesAtHand ELSE <<>>

\* get_ensemble_prediction with both sequences at hand: gather of the two
\* wrapped scorer calls, then _ensemble_predictions.  An exception leaving
\* a wrapper would leave gather and the function before anything is fused.
get_ensemble_prediction(i3d_raw, tgcn_raw) ==
    LET p1 == ScorerCall(I3D, i3d_raw)
        p2 == ScorerCall(TGCN, tgcn_raw)
    IN  /\ scorer_obs' = [op |-> "get_ensemble_prediction",
                          i3d |-> i3d_raw.kind, tgcn |-> tgcn_raw.kind,
                          raised |-> Escaped(p1) \/ Escaped(p2),
                          scorer_calls |-> Len(FusionScored),
                          awaited |-> FusionScored # <<>>]
        /\ score_log' = score_log \o FusionScored
        /\ IF Escaped(p1) \/ Escaped(p2)
           THEN /\ fuse_calls < MaxCycles
                /\ fuse_calls' = fuse_calls + 1
                /\ UNCHANGED <<stats, results_cache, fuse_obs>>
           ELSE FuseBody(p1, p2, MaxCycles)
        /\ UNCHANGED <<now, adapt_obs, concVars, active_sessions, qualVars,
                       wsVars, msgVars, xlatVars, cacheVars, queueVars,
                       weights_gen,
                       snap_obs, i3d_obs,
                       modeVars, govVars, i3dVars, bufVars, ensemble_weights,
                       ensemble_enabled, weight_updates>>

-----------------------------------------------------------------------------
(* I3DTranslatorService: translate_frames and get_latest_translation *)

MaxXlatCalls == 2                \* get_latest_translation calls per run
XlatSeconds  == 1                \* horizon of a translation run, seconds
XlatSteps    == {TicksPerSecond \div 2}

confidence_threshold  == <<7, 10>>       \* confidence_threshold = 0.7
translation_cache_maxlen == 10           \* deque(maxlen=10)
CacheFreshTicks == TicksPerSecond        \* (current_time - t) < 1.0

XlatInit ==
    /\ last_translation = None
    /\ last_translation_time = 0
    /\ translation_cache = <<>>
    /\ svc_stats = [translations_completed |-> 0, cache_hits |-> 0]
    /\ xlat_calls = 0
    /\ xlat_obs = [op |-> "init", pending |-> FALSE, dequeued |-> 0,
                   raw |-> "", ret |-> None, age |-> 0,
                   last_before |-> None, hits_before |-> 0]
    /\ score_log = <<>>

\* translate_frames: the result dict for what processor.inference did
TranslateFrames_NoThreshold(raw) ==
    CASE raw.kind = "raises" -> [success |-> FALSE, error |-> "exception"]
      [] raw.kind = "success_false" ->
             [success |-> FALSE, error |-> "Inference failed"]
      [] raw.kind = "scored" ->
             LET p == Success(I3D, raw.dist)
             IN  [success |-> TRUE, gloss |-> p.prediction,
                  confidence |-> p.confidence, method |-> "i3d"]
TranslateFrames(raw) ==
    CASE raw.kind = "raises" -> [success |-> FALSE, error |-> "exception"]
      [] raw.kind = "success_false" ->
             [success |-> FALSE, error |-> "Inference failed"]
      [] raw.kind = "scored" ->
             LET p == Success(I3D, raw.dist)
             IN  IF RLess(p.confidence, confidence_threshold)
                 THEN [success |-> FALSE, confidence |-> p.confidence,
                       reason |-> "Low confidence"]
                 ELSE [success |-> TRUE, gloss |-> p.prediction,
                       confidence |-> p.confidence, method |-> "i3d"]

\* `if self.last_translation and (current_time - t) < 1.0`
CacheFresh(last, t, at) == last # None /\ at - t < CacheFreshTicks

\* deque(maxlen=10).append of _cache_translation
TranslationCacheAppend(cache, result) ==
    LET appended == Append(cache, result)
    IN  IF Len(appended) > translation_cache_maxlen THEN Tail(appended)
        ELSE appended

\* the scorer call of one get_latest_translation: on the sequence it takes
\* from the queue
QueueScored ==
    IF processing_queue # <<>>
    THEN <<[buf |-> SERVICE, seq |-> Head(processing_queue)]>> ELSE <<>>

\* get_latest_translation: with a sequence pending, the oldest one leaves
\* the queue for translate_frames (raw is what inference does with it);
\* with none, the last translation is handed out again while it is recent
GetLatestTranslationPart(raw, horizon) ==
    LET pending == processing_queue # <<>>
        result  == TranslateFrames(raw)
        cached  == pending /\ result.success
        fresh   == CacheFresh(last_translation, last_translation_time, now)
        ret     == IF pending THEN result
                   ELSE IF fresh THEN last_translation ELSE None
    IN  /\ xlat_calls < horizon
        /\ xlat_calls' = xlat_calls + 1
        /\ processing_queue' = IF pending THEN Tail(processing_queue)
                               ELSE processing_queue
        /\ last_translation' = IF cached THEN result ELSE last_translation
        /\ last_translation_time' =
               IF cached THEN now ELSE last_translation_time
        /\ translation_cache' =
               IF cached THEN TranslationCacheAppend(translation_cache, result)
               ELSE translation_cache
        /\ svc_stats' =
               [svc_stats EXCEPT
                   !.translations_completed = IF cached THEN @ + 1 ELSE @,
                   !.cache_hits = IF ~pending /\ fresh THEN @ + 1 ELSE @]
        /\ xlat_obs' = [op |-> "get_latest_translation", pending |-> pending,
                        dequeued |-> Len(processing_queue)
                                         - Len(processing_queue'),
                        raw |-> IF pending THEN raw.kind ELSE "",
                        ret |-> ret,
                        age |-> now - last_translation_time,
                        last_before |-> last_translation,
                        hits_before |-> svc_stats.cache_hits]

get_latest_translation(raw) ==
    /\ GetLatestTranslationPart(raw, MaxXlatCalls)
    /\ score_log' = score_log \o QueueScored
    /\ queue_obs' = IF processing_queue # <<>>
                    THEN [op |-> "get", full_at_emit |-> FALSE,
                          len_before |-> Len(processing_queue)]
                    ELSE queue_obs
    /\ UNCHANGED <<now, adapt_obs, concVars, active_sessions, qualVars,
                   wsVars, accVars, msgVars, cacheVars, task_full,
                   dropped_seqs,
                   modeVars, govVars, temporal_buffer, put_tasks,
                   service_offered, emit_log, frame_obs, bufVars, fuseVars>>

XlatTick ==
    /\ \E d \in XlatSteps : Advance(d, XlatSeconds * TicksPerSecond)
    /\ UNCHANGED <<extVars, modeVars, govVars, i3dVars, bufVars, fuseVars>>

-----------------------------------------------------------------------------
(* Status and report accessors.  A returned dict is held by its caller:    *)
(* snap_obs keeps its contents at the return, the fields that are not      *)
(* copies but the live weights dict itself, and which dict that was.       *)

Insert(sorted, x) ==
    LET k == Cardinality({i \in 1..Len(sorted) : sorted[i] <= x})
    IN  SubSeq(sorted, 1, k) \o <<x>> \o SubSeq(sorted, k + 1, Len(sorted))

RECURSIVE SortedSeq(_)
SortedSeq(xs) ==
    IF xs = <<>> THEN <<>> ELSE Insert(SortedSeq(Tail(xs)), Head(xs))

\* np.percentile(values, 95): linear interpolation between closest ranks
Percentile95(xs) ==
    LET v   == SortedSeq(xs)
        pos == 95 * (Len(v) - 1)
        k   == pos \div 100
        f   == pos % 100
    IN  IF k + 2 <= Len(v)
        THEN Rat(v[k + 1] * 100 + f * (v[k + 2] - v[k + 1]), 100)
        ELSE Rat(v[k + 1], 1)

\* get_performance_stats: frame_count stays 0, so there is no current_fps
PerformanceStats(ms) ==
    [m \in {n \in DOMAIN ms : ms[n] # <<>>} |->
        [avg |-> Rat(SumSeq(ms[m]), Len(ms[m])),
         min |-> SortedSeq(ms[m])[1],
         max |-> SortedSeq(ms[m])[Len(ms[m])],
         p95 |-> Percentile95(ms[m])]]

\* get_optimization_recommendations: current_fps defaults to 0
Recommendations(ms) ==
    (IF AvgOver(ms, "video_latency", 100)
     THEN <<"Consider reducing video resolution or frame rate">> ELSE <<>>)
    \o (IF AvgOver(ms, "audio_latency", 50)
        THEN <<"Consider reducing audio sample rate or buffer size">>
        ELSE <<>>)
    \o (IF AvgOver(ms, "translation_latency", 150)
        THEN <<"Consider using cached translations or simplified models">>
        ELSE <<>>)
    \o <<"Frame rate is low, check CPU/GPU usage">>

\* get_mode_info
ModeInfo ==
    [current_mode    |-> current_mode,
     audio_level     |-> IF audio_levels # <<>>
                         THEN audio_levels[Len(audio_levels)] ELSE 0,
     motion_level    |-> IF motion_levels # <<>>
                         THEN motion_levels[Len(motion_levels)] ELSE 0,
     avg_audio_level |-> IF audio_levels # <<>>
                         THEN Rat(SumSeq(audio_levels), Len(audio_levels))
                         ELSE RZero,
     avg_motion_level |-> IF motion_levels # <<>>
                          THEN Rat(SumSeq(motion_levels), Len(motion_levels))
                          ELSE RZero,
     time_in_mode    |-> now - last_mode_switch]

Snapshot(op, value) ==
    [op |-> op, value |-> value, gen |-> weights_gen, aliased |-> {}]

\* what the holder of a snapshot reads in it now
SnapView(snap) ==
    [k \in DOMAIN snap.value |->
        IF k \in snap.aliased /\ snap.gen = weights_gen
        THEN ensemble_weights
        ELSE snap.value[k]]

SnapFrame ==
    UNCHANGED <<now, adapt_obs, concVars, active_sessions, qualVars, wsVars, lateVars,
                queueVars, scorer_obs, weights_gen, i3d_obs, modeVars,
                govVars, i3dVars, bufVars, fuseVars>>

get_mode_info ==
    /\ snap_obs' = Snapshot("get_mode_info", ModeInfo)
    /\ SnapFrame

get_performance_stats ==
    /\ snap_obs' = Snapshot("get_performance_stats", PerformanceStats(metrics))
    /\ SnapFrame

get_optimization_recommendations ==
    /\ snap_obs' = Snapshot("get_optimization_recommendations",
                            Recommendations(metrics))
    /\ SnapFrame

-----------------------------------------------------------------------------
(* PerformanceOptimizer: I3D settings *)

MaxSettingsUpdates == 2          \* update_i3d_settings calls per run

I3DKeys == {"buffer_size", "sequence_length", "stride", "enabled"}

\* the optimization setting a key of update_i3d_settings is stored under
OptKey(k) ==
    CASE k = "buffer_size"     -> "i3d_buffer_size"
      [] k = "sequence_length" -> "i3d_sequence_length"
      [] k = "stride"          -> "i3d_stride"
      [] k = "enabled"         -> "enable_i3d"

\* settings dicts offered: any choice of keys, one of them unknown
SettingValue(k) ==
    CASE k = "buffer_size"     -> 256
      [] k = "sequence_length" -> 32
      [] k = "stride"          -> 32
      [] k = "enabled"         -> FALSE
      [] k = "vocab_size"      -> 100
SettingsInputs ==
    { [k \in K |-> SettingValue(k)] : K \in SUBSET (I3DKeys \cup {"vocab_size"}) }

\* self.optimization_settings after update_i3d_settings(settings)
UpdatedSettings_ResetOthers(os, settings) ==
    [k \in DOMAIN os |->
        IF \E s \in DOMAIN settings \cap I3DKeys : OptKey(s) = k
        THEN settings[CHOOSE s \in DOMAIN settings \cap I3DKeys : OptKey(s) = k]
        ELSE IF k = "i3d_buffer_size" THEN 128
        ELSE IF k = "i3d_sequence_length" THEN 64
        ELSE IF k = "i3d_stride" THEN 16
        ELSE IF k = "enable_i3d" THEN TRUE
        ELSE os[k]]
UpdatedSettings(os, settings) ==
    [k \in DOMAIN os |->
        IF \E s \in DOMAIN settings \cap I3DKeys : OptKey(s) = k
        THEN settings[CHOOSE s \in DOMAIN settings \cap I3DKeys : OptKey(s) = k]
        ELSE os[k]]

\* get_i3d_optimization_settings
I3DSettings(os) == [k \in I3DKeys |-> os[OptKey(k)]]

SettingsFrame ==
    UNCHANGED <<now, adapt_obs, concVars, active_sessions, qualVars, wsVars, lateVars,
                queueVars, scorer_obs, weights_gen, snap_obs, modeVars,
                last_frame_time, gov_calls, gov_obs, gov_prev_call, i3dVars,
                bufVars, fuseVars>>

update_i3d_settings(settings) ==
    /\ i3d_obs.updates < MaxSettingsUpdates
    /\ optimization_settings' = UpdatedSettings(optimization_settings, settings)
    /\ i3d_obs' = [op |-> "update_i3d_settings", settings |-> settings,
                   before |-> optimization_settings,
                   ret |-> I3DSettings(optimization_settings),
                   updates |-> i3d_obs.updates + 1]
    /\ SettingsFrame

get_i3d_optimization_settings ==
    /\ i3d_obs' = [i3d_obs EXCEPT !.op = "get_i3d_optimization_settings",
                                  !.ret = I3DSettings(optimization_settings)]
    /\ UNCHANGED optimization_settings
    /\ SettingsFrame

AccInit ==
    /\ scorer_obs = [op |-> "init", i3d |-> "", tgcn |-> "", raised |-> FALSE,
                     scorer_calls |-> 0, awaited |-> FALSE]
    /\ weights_gen = 0
    /\ snap_obs = [op |-> "init", value |-> None, gen |-> 0, aliased |-> {}]
    /\ i3d_obs = [op |-> "init", settings |-> <<>>, before |-> None,
                  ret |-> None, updates |-> 0]

-----------------------------------------------------------------------------
(* PerformanceOptimizer: the gesture cache.  A gesture key is a number, an *)
(* entry is [key, data]; self._cache is a dict and keeps insertion order.  *)

MaxGestureOps == 3               \* gesture cache calls per run

gesture_cache_limit == 100       \* if len(self._cache) > 100
gesture_cache_drop  == 20        \* list(self._cache.keys())[:20]
lru_maxsize         == 128       \* @lru_cache(maxsize=128)

WAVE  == [gesture |-> "wave"]
POINT == [gesture |-> "point"]
GestureData == {WAVE, POINT}

\* keys offered: one of the oldest entries of a full cache, and a new one
GestureKeys == {1, gesture_cache_limit + 1}

StoredGestures(n) == [i \in 1..n |-> [key |-> i, data |-> WAVE]]
GestureFills == {0, gesture_cache_limit}

GestureInit ==
    /\ gesture_cache = <<>>
    /\ gesture_memo = <<>>
    /\ gesture_ops = 0
    /\ gesture_obs = [op |-> "init", key |-> 0, ret |-> None,
                      memoized |-> FALSE]

Holds(entries, k) == \E i \in 1..Len(entries) : entries[i].key = k
IndexOf(entries, k) ==
    CHOOSE i \in 1..Len(entries) : entries[i].key = k

\* self._cache.get(gesture_key)
CacheLookup(cache, k) ==
    IF Holds(cache, k) THEN cache[IndexOf(cache, k)].data ELSE None

\* self._cache[gesture_key] = data, then the twenty oldest entries are
\* deleted when there are more than a hundred
CacheStore(cache, k, d) ==
    LET stored == IF Holds(cache, k)
                  THEN [cache EXCEPT ![IndexOf(cache, k)].data = d]
                  ELSE Append(cache, [key |-> k, data |-> d])
    IN  IF Len(stored) > gesture_cache_limit
        THEN SubSeq(stored, gesture_cache_drop + 1, Len(stored))
        ELSE stored

Without(entries, k) ==
    LET Other(e) == e.key # k IN SelectSeq(entries, Other)

\* functools.lru_cache around the method: a call with an argument seen
\* before returns what the first such call returned, the body not run
MemoAfter(memo, k, value) ==
    IF Holds(memo, k)
    THEN Append(Without(memo, k), memo[IndexOf(memo, k)])
    ELSE LET added == Append(memo, [key |-> k, data |-> value])
         IN  IF Len(added) > lru_maxsize THEN Tail(added) ELSE added

CachedGesture(memo, cache, k) ==
    IF Holds(memo, k) THEN memo[IndexOf(memo, k)].data
    ELSE CacheLookup(cache, k)

GestureFrame ==
    UNCHANGED <<now, modeVars, govVars, i3dVars, bufVars, fuseVars,
                adapt_obs, concVars, active_sessions, qualVars, wsVars,
                accVars, msgVars, xlatVars, score_log, pcVars, queueVars>>

get_cached_gesture(gesture_key) ==
    LET ret == CachedGesture(gesture_memo, gesture_cache, gesture_key)
    IN  /\ gesture_ops < MaxGestureOps
        /\ gesture_ops' = gesture_ops + 1
        /\ gesture_memo' = MemoAfter(gesture_memo, gesture_key, ret)
        /\ gesture_obs' = [op |-> "get_cached_gesture", key |-> gesture_key,
                           ret |-> ret,
                           memoized |-> Holds(gesture_memo, gesture_key)]
        /\ UNCHANGED gesture_cache
        /\ GestureFrame

cache_gesture(gesture_key, data) ==
    /\ gesture_ops < MaxGestureOps
    /\ gesture_ops' = gesture_ops + 1
    /\ gesture_cache' =
           IF optimization_settings.enable_caching
           THEN CacheStore(gesture_cache, gesture_key, data)
           ELSE gesture_cache
    /\ gesture_obs' = [op |-> "cache_gesture", key |-> gesture_key,
                       ret |-> data, memoized |-> FALSE]
    /\ UNCHANGED gesture_memo
    /\ GestureFrame

-----------------------------------------------------------------------------
(* PerformanceCache (utils/performance_cache.py).  A key stands for the    *)
(* digest _generate_key makes of the frames; an entry is [key, result,     *)
(* timestamp], the OrderedDict's first entry first.                        *)

MaxPCacheOps    == 3             \* PerformanceCache calls per run
PCacheHalfLives == 2             \* horizon of a cache run, in half lifetimes

max_size    == 100               \* max_size: int = 100
ttl_seconds == 300               \* ttl_seconds: float = 300
TtlTicks    == ttl_seconds * TicksPerSecond

RESULT == [success |-> TRUE]

\* keys offered: the two oldest entries of a full cache, and a new one
PCacheKeys == {1, 2, max_size + 1}

StoredResults(n) ==
    [i \in 1..n |-> [key |-> i, result |-> RESULT, timestamp |-> 0]]
PCacheFills == {0, max_size - 1, max_size}

PCacheInit ==
    /\ pcache = <<>>
    /\ pc_hits = 0
    /\ pc_misses = 0
    /\ pc_recent = <<>>
    /\ pc_ops = 0
    /\ pc_obs = [op |-> "init", key |-> 0, ret |-> None, present |-> FALSE,
                 expired |-> FALSE, size_before |-> 0, lru_before |-> 0,
                 evicted |-> {}, misses_before |-> 0, hits_before |-> 0]

Keys(entries) == {entries[i].key : i \in 1..Len(entries)}

\* time.time() - entry['timestamp'] < self.ttl_seconds
Live(entry, at) == at - entry.timestamp < TtlTicks

\* self.cache after get(key) at time `at`
CacheAfterGet(cache, k, at) ==
    IF ~Holds(cache, k) THEN cache
    ELSE IF Live(cache[IndexOf(cache, k)], at)
    THEN Append(Without(cache, k), cache[IndexOf(cache, k)])
    ELSE Without(cache, k)

\* self.cache after put(key, result) at time `at`: popitem(last=False) when
\* at capacity, then the item assignment, which leaves a key that is
\* present where it is
CacheAfterPut(cache, k, result, at) ==
    LET room  == IF Len(cache) >= max_size THEN Tail(cache) ELSE cache
        entry == [key |-> k, result |-> result, timestamp |-> at]
    IN  IF Holds(room, k)
        THEN [room EXCEPT ![IndexOf(room, k)] = entry]
        ELSE Append(room, entry)

\* the keys present, least recently used first, after a use of key k
Touched(recent, k) == Append(SelectSeq(recent, LAMBDA x : x # k), k)

PCacheObs(op, k, ret) ==
    [op |-> op, key |-> k, ret |-> ret, present |-> Holds(pcache, k),
     expired |-> Holds(pcache, k) /\ ~Live(pcache[IndexOf(pcache, k)], now),
     size_before |-> Len(pcache),
     lru_before |-> IF pc_recent = <<>> THEN 0 ELSE Head(pc_recent),
     evicted |-> (Keys(pcache) \ Keys(pcache')) \ {k},
     misses_before |-> pc_misses, hits_before |-> pc_hits]

PCacheFrame ==
    UNCHANGED <<now, modeVars, govVars, i3dVars, bufVars, fuseVars,
                adapt_obs, concVars, active_sessions, qualVars, wsVars,
                accVars, msgVars, xlatVars, score_log, gestureVars,
                queueVars>>

get(key) ==
    LET hit == Holds(pcache, key) /\ Live(pcache[IndexOf(pcache, key)], now)
    IN  /\ pc_ops < MaxPCacheOps
        /\ pc_ops' = pc_ops + 1
        /\ pcache' = CacheAfterGet(pcache, key, now)
        /\ pc_hits' = IF hit THEN pc_hits + 1 ELSE pc_hits
        /\ pc_misses' = IF hit THEN pc_misses ELSE pc_misses + 1
        /\ pc_recent' = IF hit THEN Touched(pc_recent, key)
                        ELSE SelectSeq(pc_recent,
                                       LAMBDA x : x \in Keys(pcache'))
        /\ pc_obs' = PCacheObs("get", key,
                               IF hit THEN pcache[IndexOf(pcache, key)].result
                               ELSE None)
        /\ PCacheFrame

put(key, result) ==
    /\ pc_ops < MaxPCacheOps
    /\ pc_ops' = pc_ops + 1
    /\ pcache' = CacheAfterPut(pcache, key, result, now)
    /\ pc_recent' = SelectSeq(Touched(pc_recent, key),
                              LAMBDA x : x \in Keys(pcache'))
    /\ pc_obs' = PCacheObs("put", key, None)
    /\ UNCHANGED <<pc_hits, pc_misses>>
    /\ PCacheFrame

clear ==
    /\ pc_ops < MaxPCacheOps
    /\ pc_ops' = pc_ops + 1
    /\ pcache' = <<>>
    /\ pc_hits' = 0
    /\ pc_misses' = 0
    /\ pc_recent' = <<>>
    /\ pc_obs' = PCacheObs("clear", 0, None)
    /\ PCacheFrame

PCacheTick ==
    /\ Advance(TtlTicks \div 2, PCacheHalfLives * (TtlTicks \div 2))
    /\ UNCHANGED <<extVars, modeVars, govVars, i3dVars, bufVars, fuseVars>>

-----------------------------------------------------------------------------
(* process_unified_message: one unified input event *)

MaxMsgEvents == 2                \* unified input events per run

\* what the "video" and "audio" fields of a message come to: no field, or
\* the motion level and hands of the frame, or the level of the chunk
NoPayload   == [present |-> FALSE, level |-> 0, has_hands |-> FALSE]
VideoInputs == {NoPayload,
                [present |-> TRUE, level |-> 50, has_hands |-> TRUE]}
AudioPayloads == {NoPayload,
                  [present |-> TRUE, level |-> 30, has_hands |-> FALSE]}

\* time.time() - start_time at the end of the handler, ms
TotalLatencyInputs == {120, 250}

MsgInit ==
    /\ msg_obs = [op |-> "init", type |-> "", detect_runs |-> 0,
                  skip_runs |-> 0, gov_writes |-> 0]
    /\ msg_events = 0

\* the response type: should_skip_frame answers first, then the payloads
\* are decoded (decodes = FALSE: the decoding raises, and the handler's
\* except clause answers)
ResponseType(skip, decodes) ==
    IF skip THEN "frame_skipped"
    ELSE IF ~decodes THEN "error"
    ELSE "translation_result"

\* self.metrics after optimize_video_frame, optimize_audio_chunk and
\* measure_latency(start_time, "translation_latency") of one event
MetricsAfterEvent(ms, os, video, audio, latency) ==
    LET m1 == IF video.present
              THEN Measured(ms, "video_processing_time", latency) ELSE ms
        m2 == IF audio.present /\ os.enable_audio_compression
              THEN Measured(m1, "audio_processing_time", latency) ELSE m1
    IN  Measured(m2, "translation_latency", latency)

\* writes to the PerformanceOptimizer made by one event that is handled to
\* the end: last_frame_time, the samples, the settings
GovernorWrites(os, video, audio, latency) ==
    (IF os.enable_frame_skipping THEN 1 ELSE 0)
    + (IF video.present THEN 1 ELSE 0)
    + (IF audio.present /\ os.enable_audio_compression THEN 1 ELSE 0)
    + 1
    + (IF latency > 200 THEN 1 ELSE 0)

process_unified_message(video, audio, decodes, latency, i3d_raw, tgcn_raw) ==
    LET skip     == SkipDecision(optimization_settings, now, last_frame_time)
        type     == ResponseType(skip, decodes)
        handled  == type = "translation_result"
        recorded == MetricsAfterEvent(metrics, optimization_settings, video,
                                      audio, latency)
    IN  /\ msg_events < MaxMsgEvents
        /\ decodes \/ video.present \/ audio.present
        /\ msg_events' = msg_events + 1
        /\ ShouldSkipFramePart(MaxMsgEvents)
        /\ IF handled
           THEN /\ DetectActiveModePart(audio.level, video.level,
                                        video.has_hands, MaxMsgEvents)
                /\ metrics' = recorded
                /\ optimization_settings' =
                       IF latency > 200
                       THEN AdjustedSettings(optimization_settings, recorded)
                       ELSE optimization_settings
                /\ qual_obs' = QualObs("measure_latency",
                                       "translation_latency", latency)
                /\ GetLatestTranslationPart(i3d_raw, MaxMsgEvents)
                /\ score_log' = score_log \o QueueScored \o FusionScored
                /\ FuseBody(ScorerCall(I3D, i3d_raw),
                            ScorerCall(TGCN, tgcn_raw), MaxMsgEvents)
           ELSE UNCHANGED <<modeVars, metrics, optimization_settings,
                            qual_obs, processing_queue, xlatVars, score_log,
                            stats, results_cache, fuse_calls, fuse_obs>>
        /\ IF handled /\ video.present
           THEN DetectHandsPart(TRUE, TRUE, TRUE, TRUE)
           ELSE UNCHANGED <<temporal_buffer, put_tasks, service_offered,
                            emit_log, frame_obs, task_full, dropped_seqs,
                            queue_obs, bufVars>>
        /\ msg_obs' = [op |-> "process_unified_message", type |-> type,
                       detect_runs |-> mode_calls' - mode_calls,
                       skip_runs |-> gov_calls' - gov_calls,
                       gov_writes |->
                           IF handled
                           THEN GovernorWrites(optimization_settings, video,
                                               audio, latency)
                           ELSE IF last_frame_time' # last_frame_time
                           THEN 1 ELSE 0]
        /\ UNCHANGED <<now, adapt_obs, concVars, active_sessions,
                       qual_samples, wsVars, accVars, cacheVars,
                       ensemble_weights, ensemble_enabled, weight_updates>>

\* the clock between two events: half a frame interval, or a whole one
MsgSteps == {FrameTicks \div 2, FrameTicks}

MsgTick ==
    /\ \E d \in MsgSteps : Advance(d, GovTicks)
    /\ UNCHANGED <<extVars, modeVars, govVars, i3dVars, bufVars, fuseVars>>

LateInit ==
    /\ MsgInit
    /\ XlatInit
    /\ GestureInit
    /\ PCacheInit

-----------------------------------------------------------------------------
(* State of the operations modelled below *)

EarlyInit ==
    /\ adapt_obs = [op |-> "init"]
    /\ ConcInit
    /\ active_sessions = {}
    /\ QualInit
    /\ QueueInit
    /\ WsInit
    /\ AccInit

ExtInit ==
    /\ EarlyInit
    /\ LateInit

-----------------------------------------------------------------------------
(* Specifications *)

Init ==
    /\ now = 0
    /\ ModeInit
    /\ GovInit
    /\ I3DInit
    /\ EnsBufInit
    /\ FuseInit
    /\ ExtInit

NextMode ==
    \/ \E a \in AudioInputs, m \in MotionInputs, h \in BOOLEAN :
           detect_active_mode(a, m, h)
    \/ \E mode \in TranslationMode : set_mode(mode)
    \/ reset
    \/ ModeTick

SpecMode == Init /\ [][NextMode]_vars

\* the arbitrator after earlier input events: its buffers hold the last
\* buffer_size of the samples taken so far
RecordedSample(i) ==
    <<IF i % 3 = 0 THEN 30 ELSE 7, IF i % 2 = 0 THEN 50 ELSE 0>>
RecordedSamples(n) == [i \in 1..n |-> RecordedSample(i)]
SampleCounts == {buffer_size - 1, buffer_size + 2}
Column(samples, c) == [i \in 1..Len(samples) |-> samples[i][c]]

InitRoll ==
    /\ now = 0
    /\ GovInit
    /\ I3DInit
    /\ EnsBufInit
    /\ FuseInit
    /\ ExtInit
    /\ \E n \in SampleCounts, mode \in {AUTO_DETECT, SPEECH_TO_SIGN} :
           LET kept == LastN(RecordedSamples(n), Min(n, buffer_size))
           IN  /\ current_mode = mode
               /\ audio_levels = Column(kept, 1)
               /\ motion_levels = Column(kept, 2)
               /\ mode_obs = [op |-> "init", since |-> 0, before |-> mode,
                              ret |-> mode, at |-> 0, has_hands |-> FALSE,
                              set_at |-> -1, set_to |-> AUTO_DETECT,
                              samples |-> RecordedSamples(n)]
    /\ last_mode_switch = 0
    /\ mode_calls = 0
    /\ mode_prev = [valid |-> FALSE, ret |-> AUTO_DETECT, at |-> 0]

NextRoll ==
    \/ \E a \in {0, 30}, h \in BOOLEAN : detect_active_mode(a, 50, h)
    \/ set_mode(SIGN_TO_SPEECH)
    \/ reset
    \/ ModeTick

SpecRoll == InitRoll /\ [][NextRoll]_vars


\* the arbitrator as the application drives it: process_unified_message
\* calls detect_active_mode for every client, sessions start in between
NextSess ==
    \/ \E a \in AudioInputs, m \in MotionInputs, h \in BOOLEAN :
           detect_active_mode(a, m, h)
    \/ start_session
    \/ ModeTick

SpecSess == Init /\ [][NextSess]_vars

\* the governor's operations, in any order
NextQual ==
    \/ should_skip_frame
    \/ \E n \in NameInputs, l \in LatencyInputs : measure_latency(n, l)
    \/ \E l \in LatencyInputs : optimize_video_frame(l)
    \/ \E l \in LatencyInputs : optimize_audio_chunk(l)
    \/ auto_adjust_quality

SpecQual == Init /\ [][NextQual]_vars

\* the latency windows after the governor has been recording for a while:
\* sample i of a window took 30 or 120 ms
RecordedWindow(n) == [i \in 1..n |-> IF i % 2 = 1 THEN 30 ELSE 120]
WindowFills == {0, metrics_maxlen - 1, metrics_maxlen}

InitWin ==
    /\ now = 0
    /\ ModeInit
    /\ GovInit
    /\ I3DInit
    /\ EnsBufInit
    /\ FuseInit
    /\ adapt_obs = [op |-> "init"]
    /\ ConcInit
    /\ active_sessions = {}
    /\ \E n \in WindowFills :
           metrics = [m \in MetricNames |-> RecordedWindow(n)]
    /\ qual_samples = 0
    /\ qual_obs = [op |-> "init", before |-> None, name |-> "", ret |-> 0,
                   evicted |-> -1]
    /\ QueueInit
    /\ WsInit
    /\ AccInit
    /\ LateInit

NextWin ==
    \/ \E n \in NameInputs, l \in LatencyInputs : measure_latency(n, l)
    \/ \E l \in LatencyInputs : optimize_video_frame(l)
    \/ \E l \in LatencyInputs : optimize_audio_chunk(l)

SpecWin == InitWin /\ [][NextWin]_vars

NextGov ==
    \/ should_skip_frame
    \/ GovTick

SpecGov == Init /\ [][NextGov]_vars

\* I3DTranslatorService fed directly, as in test_i3d_translator_service
NextI3D ==
    \/ \E accept \in BOOLEAN : process_frame(accept)
    \/ add_to_queue

SpecI3D == Init /\ [][NextI3D]_vars

\* the assembler, its put tasks and the consumer of the queue
QueueGets == 1                   \* get_latest_translation calls per queue run

NextQueue ==
    \/ \E accept \in BOOLEAN : process_frame(accept)
    \/ add_to_queue
    \/ xlat_calls < QueueGets /\ get_latest_translation(Scored(H95))

SpecQueue == Init /\ [][NextQueue]_vars

\* one client session: what its receive loop can meet
NextWs ==
    \/ ws_wait
    \/ \E shape \in {"object", "other"}, result \in ResultTypes :
           ws_message(shape, result)
    \/ ws_invalid_json
    \/ ws_timeout
    \/ ws_exception
    \/ client_disconnect
    \/ \E send_raises \in BOOLEAN : ws_receive_disconnected(send_raises)

SpecWs == Init /\ [][NextWs]_vars

\* a session that streams video and then goes away
NextTeardown ==
    \/ \E pose_good, a1, a2, a3 \in BOOLEAN :
           ws_video_message(pose_good, a1, a2, a3)
    \/ add_to_queue
    \/ client_disconnect
    \/ \E send_raises \in BOOLEAN : ws_receive_disconnected(send_raises)

SpecTeardown == Init /\ [][NextTeardown]_vars

\* the I3D settings written and read back
NextSettings ==
    \/ \E settings \in SettingsInputs : update_i3d_settings(settings)
    \/ get_i3d_optimization_settings

SpecSettings == Init /\ [][NextSettings]_vars

\* the three sequence assemblers fed by the video intake path
NextAsm ==
    \/ \E pose_good, a1, a2, a3 \in BOOLEAN : detect_hands(pose_good, a1, a2, a3)
    \/ add_to_queue
    \/ \E b \in {SERVICE, ENS_I3D, ENS_POSE} : get_latest_sequence(b)

SpecAsm == Init /\ [][NextAsm]_vars

\* the fusion engine, started with the ensemble's buffers at a fill level
\* that process_frame calls reach
InitFuse ==
    /\ now = 0
    /\ ModeInit
    /\ GovInit
    /\ I3DInit
    /\ FuseInit
    /\ ExtInit
    /\ \E fill \in FillLevels :
           /\ i3d_buffer = Filled(EmptyBuffer, EnsI3DBufferConfig, fill[1])
           /\ pose_buffer = Filled(EmptyBuffer, EnsPoseBufferConfig, fill[2])
           /\ ens_offered = fill[1]
           /\ pose_rejects = fill[1] - fill[2]
    /\ seq_obs = NoSeqObs

NextFuse ==
    \/ \E o1 \in ScorerOutcomes(I3D), o2 \in ScorerOutcomes(TGCN) :
           get_ensemble_translation(o1, o2)
    \/ \E w \in WeightInputs : update_ensemble_weights(w)
    \/ \E e \in BOOLEAN : set_ensemble_enabled(e)

SpecFuse == InitFuse /\ [][NextFuse]_vars

\* fusions that fill the results cache, with adaptive weights and statistics
\* read in between; both buffers hold a sequence
AdaptOutcomes ==
    { <<Success(I3D, H95), Success(TGCN, Y40)>>,
      <<Success(I3D, Y90), Success(TGCN, Y90)>> }

\* weights installed between those fusions
AdaptWeightInputs == { (I3D :> 1 @@ TGCN :> 3) }

InitAdapt ==
    /\ now = 0
    /\ ModeInit
    /\ GovInit
    /\ I3DInit
    /\ FuseInit
    /\ ExtInit
    /\ i3d_buffer = Filled(EmptyBuffer, EnsI3DBufferConfig, 64)
    /\ pose_buffer = Filled(EmptyBuffer, EnsPoseBufferConfig, 30)
    /\ ens_offered = 64
    /\ pose_rejects = 34
    /\ seq_obs = NoSeqObs

NextAdapt ==
    \/ \E o \in AdaptOutcomes : FusePart(o[1], o[2], AdaptFusions)
    \/ get_adaptive_weights
    \/ get_stats
    \/ \E w \in AdaptWeightInputs : update_ensemble_weights(w)

SpecAdapt == InitAdapt /\ [][NextAdapt]_vars

NextConc ==
    \/ \E o \in AdaptOutcomes : ep_combine(o[1], o[2])
    \/ ep_count
    \/ ep_agreement_rate
    \/ ep_average_confidence
    \/ ep_acquire
    \/ ep_append
    \/ ep_return
    \/ stats_copy

SpecConc == InitAdapt /\ [][NextConc]_vars

\* scorer calls that raise, report failure or score, with both sequences
\* at hand
NextScorer ==
    \E i3d_raw, tgcn_raw \in RawOutcomes :
        get_ensemble_prediction(i3d_raw, tgcn_raw)

SpecScorer == InitAdapt /\ [][NextScorer]_vars

\* the accessors polled while the arbitrator, the governor and the fusion
\* are at work
NextSnap ==
    \/ get_mode_info
    \/ get_performance_stats
    \/ get_optimization_recommendations
    \/ get_stats
    \/ detect_active_mode(30, 50, TRUE)
    \/ measure_latency("video_latency", 120)
    \/ FusePart(Success(I3D, H95), Success(TGCN, Y40), MaxFusions)
    \/ \E w \in AdaptWeightInputs : update_ensemble_weights(w)

SpecSnap == InitAdapt /\ [][NextSnap]_vars

\* unified input events of one client, the clock running in between
NextMsg ==
    \/ \E v \in VideoInputs, a \in AudioPayloads, d \in BOOLEAN,
          l \in TotalLatencyInputs :
           process_unified_message(v, a, d, l, Scored(H95), Scored(Y40))
    \/ MsgTick

SpecMsg == Init /\ [][NextMsg]_vars

\* the two translation paths of one TranslationEngine: frames arrive, the
\* service's sequences are queued and translated, the ensemble fuses; the
\* assemblers start one frame short of their first appearance sequence
XlatFill == ServiceBufferConfig.sequence_length - 1

InitXlat ==
    /\ now = 0
    /\ ModeInit
    /\ GovInit
    /\ FuseInit
    /\ ExtInit
    /\ temporal_buffer = Filled(EmptyBuffer, ServiceBufferConfig, XlatFill)
    /\ put_tasks = <<>>
    /\ processing_queue = <<>>
    /\ service_offered = XlatFill
    /\ emit_log = <<>>
    /\ frame_obs = [op |-> "init", ret |-> FALSE, frame |-> 0]
    /\ i3d_buffer = Filled(EmptyBuffer, EnsI3DBufferConfig, XlatFill)
    /\ pose_buffer = Filled(EmptyBuffer, EnsPoseBufferConfig, XlatFill)
    /\ ens_offered = XlatFill
    /\ pose_rejects = 0
    /\ seq_obs = NoSeqObs

NextXlat ==
    \/ detect_hands(TRUE, TRUE, TRUE, TRUE)
    \/ add_to_queue
    \/ get_latest_translation(Scored(H95))
    \/ get_ensemble_prediction(Scored(H95), Scored(Y40))

SpecXlat == InitXlat /\ [][NextXlat]_vars

\* the queued appearance path alone, the clock running: what inference
\* does with a sequence varies
NextLatest ==
    \/ detect_hands(TRUE, TRUE, TRUE, TRUE)
    \/ add_to_queue
    \/ \E raw \in RawOutcomes : get_latest_translation(raw)
    \/ XlatTick

SpecLatest == InitXlat /\ [][NextLatest]_vars

\* the gesture cache, empty or full
InitGesture ==
    /\ now = 0
    /\ ModeInit
    /\ GovInit
    /\ I3DInit
    /\ EnsBufInit
    /\ FuseInit
    /\ EarlyInit
    /\ MsgInit
    /\ XlatInit
    /\ PCacheInit
    /\ \E n \in GestureFills : gesture_cache = StoredGestures(n)
    /\ gesture_memo = <<>>
    /\ gesture_ops = 0
    /\ gesture_obs = [op |-> "init", key |-> 0, ret |-> None,
                      memoized |-> FALSE]

NextGesture ==
    \/ \E k \in GestureKeys : get_cached_gesture(k)
    \/ \E k \in GestureKeys, d \in GestureData : cache_gesture(k, d)

SpecGesture == InitGesture /\ [][NextGesture]_vars

\* a PerformanceCache that is empty, one short of full, or full, its entries
\* stored at time 0 one after the other
InitPCache ==
    /\ now = 0
    /\ ModeInit
    /\ GovInit
    /\ I3DInit
    /\ EnsBufInit
    /\ FuseInit
    /\ EarlyInit
    /\ MsgInit
    /\ XlatInit
    /\ GestureInit
    /\ \E n \in PCacheFills :
           /\ pcache = StoredResults(n)
           /\ pc_recent = [i \in 1..n |-> i]
    /\ pc_hits = 0
    /\ pc_misses = 0
    /\ pc_ops = 0
    /\ pc_obs = [op |-> "init", key |-> 0, ret |-> None, present |-> FALSE,
                 expired |-> FALSE, size_before |-> 0, lru_before |-> 0,
                 evicted |-> {}, misses_before |-> 0, hits_before |-> 0]

NextPCache ==
    \/ \E k \in PCacheKeys : get(k)
    \/ \E k \in PCacheKeys : put(k, RESULT)
    \/ clear
    \/ PCacheTick

SpecPCache == InitPCache /\ [][NextPCache]_vars




-----------------------------------------------------------------------------
(* Claims about ModeManager *)

\* C1 (as stated): a detect_active_mode call inside the cooldown window
\* returns the current mode unchanged, and no two modes returned by
\* detect_active_mode differ within cooldown seconds of each other.
C1_Original ==
    /\ (mode_obs.op = "detect" /\ mode_obs.since < CooldownTicks)
           => mode_obs.ret = mode_obs.before
    /\ (mode_obs.op = "detect" /\ mode_prev.valid
            /\ mode_obs.at - mode_prev.at < CooldownTicks)
           => mode_obs.ret = mode_prev.ret

\* C1 (amended): detect_active_mode never changes the mode while less than
\* the cooldown has elapsed since the last transition: such a call returns the
\* mode it found and leaves it and the transition time alone, so every change
\* it makes lies at least the cooldown after the previous transition.
C1_Cooldown ==
    mode_obs.op = "detect" =>
        /\ mode_obs.since < CooldownTicks =>
               /\ mode_obs.ret = mode_obs.before
               /\ current_mode = mode_obs.before
               /\ last_mode_switch = mode_obs.at - mode_obs.since
        /\ mode_obs.ret # mode_obs.before =>
               /\ mode_obs.since >= CooldownTicks
               /\ last_mode_switch = mode_obs.at

\* A call inside the cooldown window whose signals would have selected
\* another mode (Auto with loud audio).
C1_Witness ==
    /\ mode_obs.op = "detect"
    /\ mode_obs.since < CooldownTicks
    /\ mode_obs.before = AUTO_DETECT
    /\ AvgAbove(audio_levels, audio_level_threshold)
    /\ current_mode = AUTO_DETECT

-----------------------------------------------------------------------------
(* Claims about PerformanceOptimizer.should_skip_frame *)

\* C2 (as stated): should_skip_frame returns true exactly when the call comes
\* strictly less than 1/target_fps seconds after the previous call.
C2_Original ==
    (gov_obs.op = "skip" /\ gov_prev_call.valid) =>
        (gov_obs.ret <=> gov_obs.at - gov_prev_call.at < FrameTicks)

\* C2 (amended): should_skip_frame returns true exactly when the time since
\* the last accepted frame (the last call that returned false, or
\* construction) is positive and strictly less than 1/target_fps seconds; a
\* call exactly 1/target_fps after it returns false.
C2_SkipRule ==
    gov_obs.op = "skip" =>
        (gov_obs.ret <=>
            /\ 0 < gov_obs.at - gov_obs.accepted_before
            /\ gov_obs.at - gov_obs.accepted_before < FrameTicks)

\* A call exactly 1/target_fps seconds after the last accepted frame, with a
\* skipped call in between, is accepted.
C2_Witness ==
    /\ gov_obs.op = "skip"
    /\ gov_obs.at - gov_obs.accepted_before = FrameTicks
    /\ gov_prev_call.valid
    /\ gov_prev_call.at > gov_obs.accepted_before
    /\ ~gov_obs.ret

\* C3: a call that returns true leaves last_frame_time unchanged; a call that
\* returns false with skipping enabled sets it to the time of the call.
C3_LastAccepted ==
    gov_obs.op = "skip" =>
        /\ gov_obs.ret => last_frame_time = gov_obs.accepted_before
        /\ (~gov_obs.ret /\ optimization_settings.enable_frame_skipping)
               => last_frame_time = gov_obs.at

\* A skipped call followed by a later skipped call: both are measured
\* against the same accepted frame, which the skips left in place.
C3_Witness ==
    /\ gov_obs.op = "skip"
    /\ gov_obs.ret
    /\ gov_prev_call.valid
    /\ gov_prev_call.at > gov_obs.accepted_before
    /\ gov_obs.at > gov_prev_call.at
    /\ last_frame_time = gov_obs.accepted_before

-----------------------------------------------------------------------------
(* Claims about the sequence assembler *)

C5_Emission ==
    LET n == temporal_buffer.total_frames
    IN  /\ n < 64 => emit_log = <<>>
        /\ (64 <= n /\ n <= 128) =>
               emit_log = [i \in 1..((n - 64) \div 16 + 1) |-> 64 + 16 * (i - 1)]
        /\ (frame_obs.op = "process_frame" /\ ~frame_obs.ret /\ emit_log # <<>>)
               => emit_log[Len(emit_log)] # frame_obs.frame

\* 80 frames fed: sequences were emitted after frame 64 and after frame 80.
C5_Witness ==
    /\ service_offered = 80
    /\ emit_log = <<64, 80>>
    /\ Len(put_tasks) + Len(processing_queue) = 2

-----------------------------------------------------------------------------
(* Claims about the fusion *)

FusedTwo ==
    /\ fuse_obs.op = "get_ensemble_translation"
    /\ fuse_obs.enabled
    /\ Len(ValidPredictions(fuse_obs.predictions)) = 2

FusedOne ==
    /\ fuse_obs.op = "get_ensemble_translation"
    /\ fuse_obs.enabled
    /\ Len(ValidPredictions(fuse_obs.predictions)) = 1

FusedNone ==
    /\ fuse_obs.op = "get_ensemble_translation"
    /\ fuse_obs.enabled
    /\ ValidPredictions(fuse_obs.predictions) = <<>>

\* the two channels' scores for label l, each weighted by its channel's
\* weight (0.5 for a channel the weights do not name), summed, and divided
\* by the sum of the configured weights
WeightedScore(l) ==
    LET v  == ValidPredictions(fuse_obs.predictions)
        w  == fuse_obs.weights
        w1 == IF v[1].model \in DOMAIN w THEN w[v[1].model] ELSE <<1, 2>>
        w2 == IF v[2].model \in DOMAIN w THEN w[v[2].model] ELSE <<1, 2>>
    IN  RDiv(RAdd(RMul(w1, v[1].probabilities[l]),
                  RMul(w2, v[2].probabilities[l])),
             SumValues(w))

HelloAndYes ==
    LET v == ValidPredictions(fuse_obs.predictions)
    IN  {v[1].probabilities, v[2].probabilities} = {ToRat(H95), ToRat(Y40)}

\* C7: with two valid Distributions the fused top-1 is the first label
\* maximising the weighted sum of the two score vectors divided by the sum
\* of the weights, the fused scores are those values, and "hello" (0.95) with
\* "yes" (0.4) under weights 0.6/0.4 fuses to "hello" without agreement.
C7_WeightedArgMax ==
    FusedTwo =>
        LET top == fuse_obs.fused.prediction
        IN  /\ \A l \in Labels : ~RLess(WeightedScore(top), WeightedScore(l))
            /\ \A l \in Labels :
                   l < top => RLess(WeightedScore(l), WeightedScore(top))
            /\ fuse_obs.fused.probabilities
                   = [l \in Labels |-> WeightedScore(l)]
            /\ fuse_obs.fused.confidence = WeightedScore(top)
            /\ (HelloAndYes /\ fuse_obs.weights = DefaultWeights) =>
                   /\ fuse_obs.fused.gloss = "hello"
                   /\ ~fuse_obs.fused.agreement
                   /\ fuse_obs.ret = fuse_obs.fused

\* "hello" (0.95) from the appearance channel and "yes" (0.4) from the pose
\* channel were fused under the default weights.
C7_Witness ==
    /\ FusedTwo
    /\ fuse_obs.weights = DefaultWeights
    /\ fuse_obs.predictions[1].probabilities = ToRat(H95)
    /\ fuse_obs.predictions[2].probabilities = ToRat(Y40)
    /\ fuse_obs.fused.gloss = "hello"
    /\ stats.ensemble_predictions = 1

\* C8: agreement is true exactly when the two channels' top-1 labels are the
\* same, and then the fused top-1 is that label; two channels predicting X
\* with confidence at least 0.9 agree and fuse to X.
C8_Agreement ==
    FusedTwo =>
        LET v == ValidPredictions(fuse_obs.predictions)
        IN  /\ fuse_obs.fused.agreement <=> v[1].prediction = v[2].prediction
            /\ fuse_obs.fused.agreement =>
                   fuse_obs.fused.prediction = v[1].prediction
            /\ (/\ v[1].prediction = v[2].prediction
                /\ ~RLess(v[1].confidence, <<9, 10>>)
                /\ ~RLess(v[2].confidence, <<9, 10>>)) =>
                   /\ fuse_obs.fused.agreement
                   /\ fuse_obs.fused.prediction = v[1].prediction

\* C9: with exactly one valid Distribution the result is that channel's
\* prediction, marked single-channel, naming that channel alone, and only
\* that channel's usage counter grows.
C9_SingleChannel ==
    FusedOne =>
        LET v == ValidPredictions(fuse_obs.predictions)[1]
            r == fuse_obs.fused
            before == fuse_obs.stats_before
        IN  /\ r.success
            /\ r.prediction = v.prediction
            /\ r.confidence = v.confidence
            /\ r.probabilities = v.probabilities
            /\ r.method = "ensemble_single"
            /\ r.models_used = <<v.model>>
            /\ stats.i3d_only
                   = before.i3d_only + (IF v.model = I3D THEN 1 ELSE 0)
            /\ stats.tgcn_only
                   = before.tgcn_only + (IF v.model = TGCN THEN 1 ELSE 0)
            /\ stats.ensemble_predictions = before.ensemble_predictions
            /\ stats.agreement_rate = before.agreement_rate
            /\ stats.average_confidence = before.average_confidence
            /\ results_cache = fuse_obs.cache_before

\* Both buffers had a sequence, the appearance scorer failed and the pose
\* channel's Distribution was passed through.
C9_Witness ==
    /\ FusedOne
    /\ Len(fuse_obs.predictions) = 2
    /\ ~fuse_obs.predictions[1].success
    /\ fuse_obs.fused.models_used = <<TGCN>>
    /\ stats.tgcn_only = 1
    /\ stats.i3d_only = 0

\* C10: with no valid Distribution (no sequence ready on either buffer, or
\* every scorer call failed) get_ensemble_translation returns None and the
\* fusion state is left as it was.
C10_NoResult ==
    FusedNone =>
        /\ fuse_obs.ret = None
        /\ fuse_obs.predictions = <<>> => fuse_obs.fused = None
        /\ stats = fuse_obs.stats_before
        /\ results_cache = fuse_obs.cache_before

\* Both buffers had a sequence and both scorer calls failed.
C10_Witness ==
    /\ FusedNone
    /\ Len(fuse_obs.predictions) = 2
    /\ fuse_obs.ret = None

\* C11: every fused score vector has no entry above 1 and sums to at most
\* 1 + epsilon (epsilon = 1/1000 here), whatever weights were installed.
C11_ScoresBounded ==
    (fuse_obs.op = "get_ensemble_translation" /\ fuse_obs.fused # None
         /\ fuse_obs.fused.success) =>
        LET probs == fuse_obs.fused.probabilities
        IN  /\ \A l \in Labels : ~RLess(ROne, probs[l])
            /\ ~RLess(<<1001, 1000>>, SumValues(probs))

\* C12: the weights a fusion applies to the two channels sum to 1, in every
\* state and in particular in the state a fusion ran in.
C12_WeightsSumToOne ==
    /\ RAdd(WeightOf(ensemble_weights, I3D), WeightOf(ensemble_weights, TGCN))
           = ROne
    /\ FusedTwo =>
           RAdd(WeightOf(fuse_obs.weights, I3D),
                WeightOf(fuse_obs.weights, TGCN)) = ROne

\* C13: computing adaptive weights, reading the statistics and running
\* fusions never change the fusion weights; they change only in an
\* update_ensemble_weights call.
C13_AdaptiveAdvisory ==
    [][weight_updates' = weight_updates
           => ensemble_weights' = ensemble_weights]_vars

\* Adaptive weights that differ from the fusion weights were computed from
\* five cached results, and the fusion weights are still the defaults.
C13_Witness ==
    /\ adapt_obs.op = "get_adaptive_weights"
    /\ Len(results_cache) >= AdaptMinResults
    /\ adapt_obs.ret # ensemble_weights
    /\ adapt_obs.ret = AdaptiveWeights(results_cache, ensemble_weights)
    /\ ensemble_weights = DefaultWeights
    /\ weight_updates = 0

-----------------------------------------------------------------------------
(* Claims about concurrent fusions and statistics reads *)

\* C14: the results history and the statistics are protected by one critical
\* section: every write to either and every statistics read happens with
\* cache_lock held, no update to the running count is lost, and a reader sees
\* the statistics of a whole number of fusions.
C14_CriticalSection ==
    /\ conc_obs.wrote # "none" => conc_obs.lock_held
    /\ conc_obs.op = "stats_copy" =>
           /\ conc_obs.lock_held
           /\ conc_obs.snapshot.ensemble_predictions = conc_obs.done
    /\ conc_pc = "idle" => stats.ensemble_predictions = conc_done

-----------------------------------------------------------------------------
(* Claims about the mode transitions *)

\* the call observed in mode_obs ran with the cooldown elapsed
DetectPastCooldown ==
    /\ mode_obs.op = "detect"
    /\ mode_obs.since >= CooldownTicks

\* averages of the rolling buffers the observed call computed, compared
\* without division (levels are hundredths)
AudioOverThreshold == SumSeq(audio_levels) > 10 * Len(audio_levels)
AudioUnderHalf     == 2 * SumSeq(audio_levels) < 10 * Len(audio_levels)
MotionOverThreshold == SumSeq(motion_levels) > 20 * Len(motion_levels)

\* C15: from Auto with the cooldown elapsed, detect_active_mode selects
\* speech if the average audio exceeds its threshold, otherwise sign if hands
\* are present and the average motion exceeds its threshold, otherwise Auto.
C15_FromAuto ==
    (DetectPastCooldown /\ mode_obs.before = AUTO_DETECT) =>
        /\ mode_obs.ret =
               IF AudioOverThreshold THEN SPEECH_TO_SIGN
               ELSE IF mode_obs.has_hands /\ MotionOverThreshold
                    THEN SIGN_TO_SPEECH
                    ELSE AUTO_DETECT
        /\ current_mode = mode_obs.ret

\* From Auto, past the cooldown, with loud audio and moving hands: speech.
C15_Witness ==
    /\ DetectPastCooldown
    /\ mode_obs.before = AUTO_DETECT
    /\ AudioOverThreshold
    /\ mode_obs.has_hands
    /\ MotionOverThreshold
    /\ current_mode = SPEECH_TO_SIGN

\* C16: past the cooldown, speech goes to sign only with average audio below
\* half the threshold and moving hands, sign goes to speech only with average
\* audio above the full threshold, and with average audio between half and
\* the full threshold neither changes.
C16_Asymmetric ==
    (DetectPastCooldown /\ mode_obs.before # AUTO_DETECT) =>
        /\ current_mode = mode_obs.ret
        /\ mode_obs.ret \in {SPEECH_TO_SIGN, SIGN_TO_SPEECH}
        /\ mode_obs.before = SPEECH_TO_SIGN =>
               (mode_obs.ret = SIGN_TO_SPEECH <=>
                    /\ AudioUnderHalf
                    /\ mode_obs.has_hands
                    /\ MotionOverThreshold)
        /\ mode_obs.before = SIGN_TO_SPEECH =>
               (mode_obs.ret = SPEECH_TO_SIGN <=> AudioOverThreshold)
        /\ (~AudioUnderHalf /\ ~AudioOverThreshold) =>
               mode_obs.ret = mode_obs.before

\* In speech mode, past the cooldown, with moving hands and average audio
\* between half and the full threshold: the mode stays speech.
C16_Witness ==
    /\ DetectPastCooldown
    /\ mode_obs.before = SPEECH_TO_SIGN
    /\ ~AudioUnderHalf
    /\ ~AudioOverThreshold
    /\ mode_obs.has_hands
    /\ MotionOverThreshold
    /\ current_mode = SPEECH_TO_SIGN

\* C17: set_mode(m) takes effect whatever the cooldown: right after it the
\* mode is m, both rolling buffers are empty and the transition time is the
\* time of the call; and a detect_active_mode call less than the cooldown
\* after the last set_mode leaves the mode at m.
C17_SetMode ==
    /\ mode_obs.op = "set_mode" =>
           /\ current_mode = mode_obs.ret
           /\ audio_levels = <<>>
           /\ motion_levels = <<>>
           /\ last_mode_switch = mode_obs.at
    /\ (/\ mode_obs.op = "detect"
        /\ mode_obs.set_at >= 0
        /\ mode_obs.at - mode_obs.set_at < CooldownTicks) =>
           /\ mode_obs.ret = mode_obs.set_to
           /\ current_mode = mode_obs.set_to

\* set_mode(sign) was followed within the cooldown by a call with loud
\* audio, which left the mode at sign.
C17_Witness ==
    /\ mode_obs.op = "detect"
    /\ mode_obs.set_at >= 0
    /\ mode_obs.at - mode_obs.set_at < CooldownTicks
    /\ mode_obs.set_at > 0
    /\ mode_obs.set_to = SIGN_TO_SPEECH
    /\ AudioOverThreshold
    /\ current_mode = SIGN_TO_SPEECH

\* C18: when a session starts the mode is Auto, the rolling buffers are
\* empty and the cooldown timer is fresh, whatever was fed to the arbitrator
\* before.
C18_SessionReset ==
    mode_obs.op = "start_session" =>
        /\ current_mode = AUTO_DETECT
        /\ audio_levels = <<>>
        /\ motion_levels = <<>>
        /\ last_mode_switch = mode_obs.at

-----------------------------------------------------------------------------
(* Claims about the quality adjustment *)

\* C19: the resolution cap is never below 320 x 240 and the audio sample
\* rate never below 8000, however often auto_adjust_quality runs.
C19_Floors ==
    /\ optimization_settings.max_resolution[1] >= 320
    /\ optimization_settings.max_resolution[2] >= 240
    /\ optimization_settings.audio_sample_rate >= 8000

\* auto_adjust_quality ran with both means over their limits on settings
\* whose next reduction would pass the floors, and left them at the floors.
C19_Witness ==
    /\ qual_obs.op = "auto_adjust_quality"
    /\ AvgOver(metrics, "video_latency", 100)
    /\ AvgOver(metrics, "audio_latency", 50)
    /\ (qual_obs.before.max_resolution[1] * 8) \div 10 < 320
    /\ qual_obs.before.audio_sample_rate - 2000 < 8000
    /\ optimization_settings.max_resolution = <<320, 240>>
    /\ optimization_settings.audio_sample_rate = 8000

\* C20: no governor operation raises the resolution cap or the audio sample
\* rate.
C20_MonotonicDecrease ==
    [][/\ optimization_settings'.max_resolution[1]
              <= optimization_settings.max_resolution[1]
       /\ optimization_settings'.max_resolution[2]
              <= optimization_settings.max_resolution[2]
       /\ optimization_settings'.audio_sample_rate
              <= optimization_settings.audio_sample_rate]_vars

\* auto_adjust_quality lowered both the resolution cap and the sample rate.
C20_Witness ==
    /\ qual_obs.op = "auto_adjust_quality"
    /\ optimization_settings.max_resolution[1]
           < qual_obs.before.max_resolution[1]
    /\ optimization_settings.max_resolution[2]
           < qual_obs.before.max_resolution[2]
    /\ optimization_settings.audio_sample_rate
           < qual_obs.before.audio_sample_rate
    /\ gov_calls > 0

\* C21: when auto_adjust_quality runs while the mean of the samples
\* recorded by optimize_video_frame exceeds 100 ms the resolution cap is
\* reduced to 80 % (floored), and while the mean of the samples recorded by
\* optimize_audio_chunk exceeds 50 ms the sample rate drops by 2000
\* (floored).
C21_RecordedSamples ==
    qual_obs.op = "auto_adjust_quality" =>
        /\ AvgOver(metrics, "video_processing_time", 100) =>
               optimization_settings.max_resolution =
                   ReducedResolution(qual_obs.before.max_resolution)
        /\ AvgOver(metrics, "audio_processing_time", 50) =>
               optimization_settings.audio_sample_rate =
                   ReducedSampleRate(qual_obs.before.audio_sample_rate)

\* C22: measure_latency appends the sample it returns to the window of the
\* named metric, evicting the oldest sample of a window that already holds
\* 100; no window ever holds more than 100 samples and the windows of the
\* other metrics are left as they were.
C22_RollingWindow ==
    [][(qual_obs'.op = "measure_latency" /\ qual_samples' # qual_samples) =>
          LET n     == qual_obs'.name
              x     == qual_obs'.ret
              shift == IF n \in MetricNames /\ Len(metrics[n]) = metrics_maxlen
                       THEN 1 ELSE 0
          IN  /\ \A m \in MetricNames \ {n} : metrics'[m] = metrics[m]
              /\ \A m \in MetricNames : Len(metrics'[m]) <= metrics_maxlen
              /\ n \in MetricNames =>
                   /\ Len(metrics'[n]) = Len(metrics[n]) + 1 - shift
                   /\ metrics'[n][Len(metrics'[n])] = x
                   /\ \A i \in 1..(Len(metrics'[n]) - 1) :
                          metrics'[n][i] = metrics[n][i + shift]]_vars

\* measure_latency recorded a sample in a window that held 100: the oldest
\* sample went, the new one is last and the window still holds 100.
C22_Witness ==
    /\ qual_obs.op = "measure_latency"
    /\ qual_obs.name = "translation_latency"
    /\ qual_obs.evicted >= 0
    /\ Len(metrics["translation_latency"]) = metrics_maxlen
    /\ metrics["translation_latency"][metrics_maxlen] = qual_obs.ret
    /\ Len(metrics["video_latency"]) = metrics_maxlen - 1

-----------------------------------------------------------------------------
(* Claims about the processing queue *)

-----------------------------------------------------------------------------
(* Claims about the client session loop *)

\* C24: while the client stays connected the receive loop ends only by the
\* retry counter reaching 3, and the last message sent before it ends is
\* the fatal error notification.
C24_FatalOnly ==
    (ws_state = "closed" /\ connected) =>
        /\ ws_obs.op = "exception"
        /\ retry_count >= max_retries
        /\ ws_obs.retry_before = max_retries - 1
        /\ ws_obs.sent = <<"fatal_error">>

\* The third exception in a row closed the session of a connected client.
C24_Witness ==
    /\ ws_state = "closed"
    /\ connected
    /\ retry_count = max_retries
    /\ ws_obs.sent = <<"fatal_error">>

\* C25: a receive that has waited 30 s sends one ping and the loop goes on:
\* the retry counter is left as it was and the session stays open.
C25_Heartbeat ==
    ws_obs.op = "timeout" =>
        /\ ws_obs.waited = ReceiveTimeout
        /\ ws_obs.sent = <<"ping">>
        /\ retry_count = ws_obs.retry_before
        /\ ws_state = "open"

\* A timeout came while two exceptions were already counted: the counter
\* stayed at two and the session open.
C25_Witness ==
    /\ ws_obs.op = "timeout"
    /\ ws_obs.retry_before = max_retries - 1
    /\ retry_count = max_retries - 1
    /\ ws_state = "open"

C27_Teardown ==
    (ws_state = "closed" /\ ~connected) =>
        /\ temporal_buffer.buffer = <<>>
        /\ i3d_buffer.buffer = <<>>
        /\ pose_buffer.buffer = <<>>
        /\ Len(processing_queue) <= ws_obs.queued

-----------------------------------------------------------------------------
(* Claims about scorer failures, the accessors and the I3D settings *)

\* C28: no exception leaves get_ensemble_prediction whatever the scorers
\* do; when one scorer raises or reports failure and the other scores, the
\* result is the scoring channel's own prediction, confidence and
\* probabilities, marked single-channel and naming that channel alone.
C28_FailedChannelAbsent ==
    scorer_obs.op = "get_ensemble_prediction" =>
        /\ ~scorer_obs.raised
        /\ fuse_obs.op = "get_ensemble_translation"
        /\ \A m \in {I3D, TGCN} :
               LET failed == IF m = I3D THEN scorer_obs.i3d
                             ELSE scorer_obs.tgcn
                   other  == IF m = I3D THEN scorer_obs.tgcn
                             ELSE scorer_obs.i3d
                   kept   == IF m = I3D THEN fuse_obs.predictions[2]
                             ELSE fuse_obs.predictions[1]
               IN  (failed \in {"raises", "success_false"}
                    /\ other = "scored") =>
                       /\ fuse_obs.fused.success
                       /\ fuse_obs.fused.method = "ensemble_single"
                       /\ fuse_obs.fused.models_used = <<kept.model>>
                       /\ kept.model # m
                       /\ fuse_obs.fused.prediction = kept.prediction
                       /\ fuse_obs.fused.confidence = kept.confidence
                       /\ fuse_obs.fused.probabilities = kept.probabilities
                       /\ results_cache = fuse_obs.cache_before

\* The appearance scorer raised, the pose scorer scored, and the result is
\* the pose channel's alone.
C28_Witness ==
    /\ scorer_obs.op = "get_ensemble_prediction"
    /\ scorer_obs.i3d = "raises"
    /\ scorer_obs.tgcn = "scored"
    /\ ~scorer_obs.raised
    /\ fuse_obs.fused.success
    /\ fuse_obs.fused.models_used = <<TGCN>>

\* the state the accessors report on
LiveState ==
    <<current_mode, last_mode_switch, audio_levels, motion_levels,
      last_frame_time, optimization_settings, metrics, ensemble_weights,
      weights_gen, stats, results_cache, ensemble_enabled, i3d_buffer,
      pose_buffer>>

\* C29: a call of get_mode_info, get_performance_stats,
\* get_optimization_recommendations or get_stats leaves the arbitrator,
\* governor and fusion state as it was, and no later step changes what the
\* holder of the snapshot returned last reads in it.
C29_ReadOnlySnapshots ==
    [][/\ snap_obs' # snap_obs => UNCHANGED LiveState
       /\ snap_obs' = snap_obs => SnapView(snap_obs)' = SnapView(snap_obs)
       /\ SnapView(snap_obs)' = snap_obs'.value]_vars

\* A get_stats snapshot is still held after update_ensemble_weights
\* installed other weights, and it still shows the weights of its time.
C29_Witness ==
    /\ snap_obs.op = "get_stats"
    /\ snap_obs.gen < weights_gen
    /\ snap_obs.value.current_weights # ensemble_weights
    /\ SnapView(snap_obs) = snap_obs.value
    /\ stats # [k \in DOMAIN stats |-> snap_obs.value[k]]

\* C30: update_i3d_settings writes the supplied keys among buffer_size,
\* sequence_length, stride and enabled to their settings and leaves every
\* other optimization setting as it was; get_i3d_optimization_settings
\* returns the four settings as they are then.
C30_ExactKeys ==
    /\ i3d_obs.op = "update_i3d_settings" =>
           \A k \in DOMAIN optimization_settings :
               LET supplied == {s \in DOMAIN i3d_obs.settings \cap I3DKeys :
                                    OptKey(s) = k}
               IN  IF supplied # {}
                   THEN \A s \in supplied :
                            optimization_settings[k] = i3d_obs.settings[s]
                   ELSE optimization_settings[k] = i3d_obs.before[k]
    /\ i3d_obs.op = "get_i3d_optimization_settings" =>
           /\ i3d_obs.ret.buffer_size = optimization_settings.i3d_buffer_size
           /\ i3d_obs.ret.sequence_length
                  = optimization_settings.i3d_sequence_length
           /\ i3d_obs.ret.stride = optimization_settings.i3d_stride
           /\ i3d_obs.ret.enabled = optimization_settings.enable_i3d
           /\ \A s \in DOMAIN i3d_obs.settings \cap I3DKeys :
                  i3d_obs.ret[s] = i3d_obs.settings[s]

\* After buffer_size had been raised, an update of stride alone was read
\* back: stride changed, buffer_size kept its raised value.
C30_Witness ==
    /\ i3d_obs.op = "get_i3d_optimization_settings"
    /\ i3d_obs.updates = 2
    /\ DOMAIN i3d_obs.settings = {"stride"}
    /\ i3d_obs.ret.stride = 32
    /\ i3d_obs.ret.buffer_size = 256
    /\ i3d_obs.ret.sequence_length = 64
    /\ i3d_obs.before.i3d_buffer_size = 256


-----------------------------------------------------------------------------
(* Claims about process_unified_message *)

\* C31: for every inbound message handled by process_unified_message,
\* detect_active_mode runs exactly once and the governor's state is updated
\* exactly once, including for events the governor decides to skip.
C31_OncePerEvent ==
    msg_obs.op = "process_unified_message"
        => /\ msg_obs.detect_runs = 1
           /\ msg_obs.gov_writes = 1


\* C32: the fusion statistics are updated after every fusion, single-channel
\* or two-channel: each completed fusion raises the running count by one and
\* folds its confidence into the running mean confidence, and a two-channel
\* fusion folds its agreement into the agreement rate, so that the count is
\* the number of completed fusions and the means are taken over all of them.
C32_StatsEveryFusion ==
    (FusedOne \/ FusedTwo) =>
        LET before == fuse_obs.stats_before
            n      == before.ensemble_predictions + 1
        IN  /\ stats.ensemble_predictions = n
            /\ stats.average_confidence
                   = RunningMean(before.average_confidence, n,
                                 fuse_obs.fused.confidence)
            /\ FusedTwo =>
                   stats.agreement_rate
                       = RunningMean(before.agreement_rate, n,
                                     IF fuse_obs.fused.agreement
                                     THEN ROne ELSE RZero)


-----------------------------------------------------------------------------
(* Claims about the scorer calls and the translation paths *)

\* C33: every sequence is consumed exactly once by a scorer call: no sequence
\* is handed to a scorer twice, on the queued appearance path
\* (get_latest_translation) or on the fusion path (get_ensemble_prediction
\* reading get_latest_sequence).
C33_ScoredOnce ==
    \A i, j \in 1..Len(score_log) :
        i # j => score_log[i] # score_log[j]

\* C34: the fusion step of the response path makes no scorer call and waits
\* for none: it only reads cached Distributions.
C34_NoScorerCall ==
    scorer_obs.op = "get_ensemble_prediction"
        => /\ scorer_obs.scorer_calls = 0
           /\ ~scorer_obs.awaited


\* C38: get_latest_translation dequeues at most one sequence per call; with
\* an empty queue it returns the last successful translation only if that
\* was produced less than 1.0 s ago, counting a cache hit, and null
\* otherwise; a translation rejected for low confidence or failed inference
\* never becomes the cached last translation.
C38_LatestTranslation ==
    /\ xlat_obs.op = "get_latest_translation" =>
           /\ xlat_obs.dequeued \in {0, 1}
           /\ xlat_obs.pending <=> xlat_obs.dequeued = 1
           /\ ~xlat_obs.pending =>
                  IF xlat_obs.last_before # None
                         /\ xlat_obs.age < TicksPerSecond
                  THEN /\ xlat_obs.ret = xlat_obs.last_before
                       /\ svc_stats.cache_hits = xlat_obs.hits_before + 1
                  ELSE /\ xlat_obs.ret = None
                       /\ svc_stats.cache_hits = xlat_obs.hits_before
           /\ last_translation # xlat_obs.last_before =>
                  /\ xlat_obs.pending
                  /\ xlat_obs.raw = "scored"
                  /\ last_translation = xlat_obs.ret
    /\ last_translation # None =>
           /\ last_translation.success
           /\ ~RLess(last_translation.confidence, confidence_threshold)

\* A call found the queue empty and handed out the translation made half a
\* second before; an earlier call had translated the one queued sequence.
C38_Witness ==
    /\ xlat_obs.op = "get_latest_translation"
    /\ ~xlat_obs.pending
    /\ xlat_obs.last_before # None
    /\ xlat_obs.age > 0
    /\ xlat_obs.ret = last_translation
    /\ svc_stats.cache_hits = 1
    /\ svc_stats.translations_completed = 1


-----------------------------------------------------------------------------
(* Claims about the arbitrator's rolling buffers *)

\* the last min(n, 10) of the n samples taken since the buffers were cleared
LastSamples(c) ==
    LET n == Len(mode_obs.samples)
    IN  Column(LastN(mode_obs.samples, Min(n, 10)), c)

\* C35: each rolling signal buffer holds at most 10 samples in arrival
\* order, an eleventh evicting the oldest: it is the last min(n, 10) samples
\* since the last reset or set_mode; and the transition decision is taken on
\* the means of exactly those samples.
C35_RollingBuffers ==
    /\ Len(audio_levels) <= 10
    /\ Len(motion_levels) <= 10
    /\ audio_levels = LastSamples(1)
    /\ motion_levels = LastSamples(2)
    /\ (mode_obs.op = "detect" /\ mode_obs.since >= CooldownTicks) =>
           mode_obs.ret = DetectedMode(mode_obs.before, LastSamples(1),
                                       LastSamples(2), mode_obs.has_hands)

\* An eleventh sample arrived after the cooldown: the buffers hold the last
\* ten of eleven samples and the decision was taken on them.
C35_Witness ==
    /\ mode_obs.op = "detect"
    /\ mode_obs.since >= CooldownTicks
    /\ Len(mode_obs.samples) = 11
    /\ Len(audio_levels) = 10
    /\ audio_levels[1] = mode_obs.samples[2][1]
    /\ audio_levels[10] = mode_obs.samples[11][1]
    /\ mode_obs.ret # mode_obs.before


\* C36: once the arbitrator has left Auto, no detect_active_mode call returns
\* it to Auto: the mode becomes Auto again only through set_mode(Auto) or
\* reset.
C36_NoReturnToAuto ==
    [][(current_mode # AUTO_DETECT /\ current_mode' = AUTO_DETECT)
           => mode_obs'.op \in {"set_mode", "reset"}]_vars

\* Outside Auto and past the cooldown, with no speech and no signing in the
\* buffers, detect_active_mode ran and the mode stayed where it was
C36_Witness ==
    /\ mode_obs.op = "detect"
    /\ mode_obs.before = SPEECH_TO_SIGN
    /\ mode_obs.since >= CooldownTicks
    /\ ~AvgAbove(audio_levels, audio_level_threshold)
    /\ ~AvgAbove(motion_levels, motion_level_threshold)
    /\ current_mode = SPEECH_TO_SIGN


-----------------------------------------------------------------------------
(* Claims about the connection registry *)

\* C37: whenever the receive loop of a connection has ended (client
\* disconnect, unexpected error, or the retry limit), the connection has been
\* removed from active_connections exactly once: the registry holds only
\* connections whose loop is still running.
C37_RemovedOnExit ==
    /\ ws_state = "closed" => active_connections = 0
    /\ ws_state = "open" => active_connections = 1


-----------------------------------------------------------------------------
(* Claims about the caches *)

\* C39: with caching enabled, a get_cached_gesture(k) made while k is stored
\* returns the data stored under k, whatever calls to get_cached_gesture(k)
\* were made before; and the gesture cache never holds more than 100
\* entries.
C39_GestureCache ==
    /\ Len(gesture_cache) <= 100
    /\ (gesture_obs.op = "get_cached_gesture"
            /\ Holds(gesture_cache, gesture_obs.key)) =>
           gesture_obs.ret = CacheLookup(gesture_cache, gesture_obs.key)

\* C40: PerformanceCache never holds more than max_size entries; a put at
\* capacity evicts the least recently used entry, recency being refreshed
\* by put and by a get hit; a put for a key already present evicts no other
\* entry; a get of an expired entry removes it and counts as a miss.
C40_LruCache ==
    /\ Len(pcache) <= max_size
    /\ pc_obs.op = "put" =>
           /\ Holds(pcache, pc_obs.key)
           /\ pc_obs.evicted =
                  IF ~pc_obs.present /\ pc_obs.size_before = max_size
                  THEN {pc_obs.lru_before} ELSE {}
    /\ (pc_obs.op = "get" /\ pc_obs.expired) =>
           /\ ~Holds(pcache, pc_obs.key)
           /\ pc_obs.ret = None
           /\ pc_misses = pc_obs.misses_before + 1
           /\ pc_hits = pc_obs.hits_before

=============================================================================
